---- MODULE Spec2Model ----
(***************************************************************************)
(* A model of the ApiStore of the OpenAPI client (src/unnamed/part_000):   *)
(* specification loading with its cancellation token, operation selection, *)
(* the request draft, the security payload, sendRequest and the response   *)
(* history.                                                                *)
(*                                                                         *)
(* Text is modelled as a sequence of atoms (a JavaScript string cut into   *)
(* the pieces the code distinguishes: a "{{var}}" template, a "{name}"     *)
(* placeholder, a "Bearer " prefix, a token, ...); << >> is the empty      *)
(* string.  A JavaScript object is a function whose DOMAIN is its key set. *)
(* Promise continuations run in the microtask drain of the event-loop turn *)
(* that settles the promise, so each action below is one event-loop turn.  *)
(***************************************************************************)
EXTENDS Integers, Sequences, FiniteSets, TLC

\* ------------------------------------------------------------------------
\* Program constants and model bounds
\* ------------------------------------------------------------------------

MAX_RESPONSE_HISTORY == 10

\* sends issued in the specifications SpecSend and FairSpecRecord
MaxSends == 2

\* sends issued in the specification SpecHistory
MaxHistorySends == 12

\* specification loads started in the specification SpecLoad
MaxLoads == 3

\* draft edits made in the specifications SpecSend and FairSpecRecord
MaxEdits == 2

\* edits of the source dialog, the load URL and the paste draft in SpecLoad
MaxSourceEdits == 2

\* draft and credential edits made in the specification SpecSec
MaxSecurityEdits == 3

\* specification switches in a run of sends
MaxSwitches == 2

\* requests at the transport at one time in the specification SpecHistory
MaxInFlight == 1

\* documents loaded in the specification FairSpecRecord
MaxRecordLoads == 1

\* documents loaded and requests sent in the specification SpecSec
MaxSecurityLoads == 1

MaxSecuritySends == 1

\* edits, documents loaded and requests sent in the specification SpecHeaders
MaxHeaderEdits == 5

MaxHeaderLoads == 1

MaxHeaderSends == 1

\* edits, documents loaded and requests sent in the specification SpecPath
MaxPathEdits == 3

MaxPathLoads == 1

MaxPathSends == 2

\* edits, documents loaded and requests sent in the specification FairSpecMapping
MaxMappingEdits == 3

MaxMappingLoads == 1

MaxMappingSends == 2

\* edits and loads in the specification SpecParse
MaxParseEdits == 3

MaxParseLoads == 3

\* the longest cycle of references, and selections and documents loaded in
\* the specification SpecResolve
MaxCycleLength == 7

MaxResolveEdits == 2

MaxResolveLoads == 2

\* selections and documents loaded in the specification SpecList
MaxListEdits == 2

MaxListLoads == 2

\* selections, documents loaded and requests sent in the specification
\* SpecResponses
MaxResponsesEdits == 2

MaxResponsesLoads == 1

MaxResponsesSends == 1

\* edits, documents loaded and requests sent in the specification SpecBody
MaxBodyEdits == 4

MaxBodyLoads == 1

MaxBodySends == 1

\* edits and documents loaded in the specification SpecServers
MaxServerEdits == 3

MaxServerLoads == 3

\* edits, documents loaded and requests sent in the specification SpecMultipart
MaxMultipartEdits == 4

MaxMultipartLoads == 1

MaxMultipartSends == 1

\* selections and documents loaded in the specification SpecDefault
MaxDefaultEdits == 2

MaxDefaultLoads == 2

\* credentials set, documents loaded and requests sent in SpecAuth
MaxAuthEdits == 3

MaxAuthLoads == 1

MaxAuthSends == 1

\* source edits, loads and sends in the specification SpecSources
MaxSourcesEdits == 4

MaxSourcesLoads == 2

MaxSourcesSends == 1

\* ------------------------------------------------------------------------
\* Generic helpers
\* ------------------------------------------------------------------------

Range(f) == {f[x] : x \in DOMAIN f}

EmptyMap == << >>

Has(m, k) == k \in DOMAIN m

\* { ...m, [k]: v }
Put(m, k, v) == [x \in DOMAIN m \cup {k} |-> IF x = k THEN v ELSE m[x]]

\* { ...a, ...b }
Spread(a, b) == [x \in DOMAIN a \cup DOMAIN b |-> IF x \in DOMAIN b THEN b[x] ELSE a[x]]

\* delete m[k]
Without(m, k) == [x \in DOMAIN m \ {k} |-> m[x]]

MinOf(S) == CHOOSE x \in S : \A y \in S : x <= y

\* array.slice(0, n)
Slice(s, n) == SubSeq(s, 1, IF Len(s) < n THEN Len(s) ELSE n)

RECURSIVE Concat(_)
Concat(ss) == IF ss = << >> THEN << >> ELSE Head(ss) \o Concat(Tail(ss))

\* ------------------------------------------------------------------------
\* Text helpers
\* ------------------------------------------------------------------------

\* the text pieces matched by /{{\s*([^}]+)\s*}}/g with their "|" candidates
TemplateAtoms == {"{{token}}", "{{missing|token}}"}

TemplateCandidates(atom) ==
    CASE atom = "{{token}}" -> <<"token">>
      [] atom = "{{missing|token}}" -> <<"missing", "token">>
      [] OTHER -> << >>

RECURSIVE resolveHeaderTemplate(_, _)
resolveHeaderTemplate(template, variables) ==
    IF template = << >> THEN << >>
    ELSE LET a == Head(template)
             rest == resolveHeaderTemplate(Tail(template), variables)
         IN  IF a \in TemplateAtoms
             THEN LET c == TemplateCandidates(a)
                      ms == {i \in 1..Len(c) :
                                Has(variables, c[i]) /\ variables[c[i]] # << >>}
                  IN  (IF ms = {} THEN << >> ELSE variables[c[MinOf(ms)]]) \o rest
             ELSE <<a>> \o rest

\* encodeURIComponent on one piece of text: reserved characters are escaped
EncodeAtom(a) ==
    CASE a = "{id}" -> "%7Bid%7D"
      [] a = "{postId}" -> "%7BpostId%7D"
      [] a = "a b" -> "a%20b"
      [] a = "Bearer " -> "Bearer%20"
      [] OTHER -> a

encodeURIComponent(s) == [i \in 1..Len(s) |-> EncodeAtom(s[i])]

\* URLSearchParams serialisation of one piece of text (space becomes "+")
FormEncodeAtom(a) ==
    CASE a = "{id}" -> "%7Bid%7D"
      [] a = "{postId}" -> "%7BpostId%7D"
      [] a = "a b" -> "a+b"
      [] a = "Bearer " -> "Bearer+"
      [] OTHER -> a

FormEncode(s) == [i \in 1..Len(s) |-> FormEncodeAtom(s[i])]

\* the text pieces matched by /{([^}]+)}/g in a path, with the captured name
PlaceholderAtoms == {"{id}", "{postId}"}

PlaceholderName(atom) ==
    CASE atom = "{id}" -> "id"
      [] atom = "{postId}" -> "postId"
      [] OTHER -> ""

applyPathParams(path, params) ==
    Concat([i \in 1..Len(path) |->
        IF path[i] \in PlaceholderAtoms
        THEN encodeURIComponent(
                 IF Has(params, PlaceholderName(path[i]))
                 THEN params[PlaceholderName(path[i])]
                 ELSE <<path[i]>>)
        ELSE <<path[i]>>])

\* the query part of a URL, as the map of the serialised entries
buildQueryString(params) ==
    LET keys == {k \in DOMAIN params : params[k] # << >>}
    IN  [k \in keys |-> FormEncode(params[k])]

toUpperCase(method) ==
    CASE method = "get" -> "GET"
      [] method = "post" -> "POST"
      [] method = "put" -> "PUT"
      [] method = "patch" -> "PATCH"
      [] method = "delete" -> "DELETE"
      [] method = "options" -> "OPTIONS"
      [] method = "head" -> "HEAD"
      [] method = "trace" -> "TRACE"
      [] OTHER -> method

toLowerCase(method) ==
    CASE method = "GET" -> "get"
      [] method = "POST" -> "post"
      [] method = "PUT" -> "put"
      [] method = "PATCH" -> "patch"
      [] method = "DELETE" -> "delete"
      [] method = "OPTIONS" -> "options"
      [] method = "HEAD" -> "head"
      [] method = "TRACE" -> "trace"
      [] method = "Bearer " -> "bearer "
      [] method = "Digest" -> "digest"
      [] OTHER -> method

HTTP_METHODS == {"get", "post", "put", "patch", "delete", "options", "head", "trace"}

\* ------------------------------------------------------------------------
\* The documents of the model: the OpenAPI objects a specification text
\* parses to.  paths is the sequence of path items in declaration order;
\* entries are the keys found under a path item.
\* ------------------------------------------------------------------------

NoDefault == [has |-> FALSE, value |-> << >>]

Default(v) == [has |-> TRUE, value |-> v]

Param(name, in, default) == [name |-> name, in |-> in, default |-> default]

Operation(parameters, content, security) ==
    [parameters |-> parameters, content |-> content, security |-> security]

Entry(key, isObject, op) == [key |-> key, isObject |-> isObject, op |-> op]

NoOperation == Operation(<< >>, << >>, << >>)

JsonDefaultBody == <<"{\"name\":\"string\"}">>

TextDefaultBody == <<"\"string\"">>

\* a response object of a document, told apart by its description
ResponseObject(description) == [kind |-> "record", description |-> description]

\* an entry of the responses object of an operation, in the order of the text
Declared(status, declared) == [status |-> status, response |-> declared]

\* an operation with the responses given, in the order they are written
ResponsesOperation(responses) ==
    [parameters |-> << >>, content |-> << >>, security |-> << >>,
     responses |-> responses]

\* an operation whose JSON request body has the schema given
SchemaOperation(schema) ==
    Operation(<< >>,
              << [type |-> "application/json", body |-> JsonDefaultBody, schema |-> schema] >>,
              << >>)

\* a reference to a component schema: "#/components/schemas/" and the name,
\* a name being a letter and a number
RefTo(name) == <<"#/components/schemas/">> \o name

RefSchema(name) == [x \in {"$ref"} |-> RefTo(name)]

\* the ways a schema of the model leads to the next one
CycleShapes == {"ref", "properties", "items", "allOf", "oneOf", "anyOf"}

ShapeLetter(shape) ==
    CASE shape = "ref" -> "R"
      [] shape = "properties" -> "P"
      [] shape = "items" -> "I"
      [] shape = "allOf" -> "A"
      [] shape = "oneOf" -> "O"
      [] OTHER -> "Y"

\* the schema of a cycle that leads to the schema called next
CycleSchema(shape, next) ==
    CASE shape = "ref" -> RefSchema(next)
      [] shape = "properties" ->
            [type |-> "object", properties |-> [child |-> RefSchema(next)]]
      [] shape = "items" -> [type |-> "array", items |-> RefSchema(next)]
      [] shape = "allOf" -> [allOf |-> <<RefSchema(next)>>]
      [] shape = "oneOf" -> [oneOf |-> <<RefSchema(next)>>]
      [] OTHER -> [anyOf |-> <<RefSchema(next)>>]

\* components.schemas with, for every shape, a cycle of n schemas: schema i
\* leads to schema i + 1 and schema n leads back to schema 1
CycleSchemas(n) ==
    [name \in {<<ShapeLetter(shape), i>> : shape \in CycleShapes, i \in 1..n} |->
        LET shape == CHOOSE sh \in CycleShapes : ShapeLetter(sh) = name[1]
        IN  CycleSchema(shape, <<name[1], (name[2] % n) + 1>>)]

\* a document with one operation for each shape; the body of the operation
\* is the first schema of the cycle of that shape
CycleDoc(n) ==
    [ paths |-> <<
        [ path |-> <<"/cycle">>,
          entries |-> <<
            Entry("post", TRUE, SchemaOperation(RefSchema(<<"R", 1>>))),
            Entry("put", TRUE, SchemaOperation(RefSchema(<<"P", 1>>))),
            Entry("patch", TRUE, SchemaOperation(RefSchema(<<"I", 1>>))),
            Entry("get", TRUE, SchemaOperation(RefSchema(<<"A", 1>>))),
            Entry("delete", TRUE, SchemaOperation(RefSchema(<<"O", 1>>))),
            Entry("options", TRUE, SchemaOperation(RefSchema(<<"Y", 1>>))) >> ] >>,
      securitySchemes |-> << >>,
      servers |-> << >>,
      schemas |-> CycleSchemas(n) ]

\* ------------------------------------------------------------------------
\* Default values: a JavaScript value is its kind and its content
\* ------------------------------------------------------------------------

JsObject(fields) == [kind |-> "object", value |-> fields]

JsArray(items) == [kind |-> "array", value |-> items]

JsString(text) == [kind |-> "string", value |-> text]

JsNumber(n) == [kind |-> "number", value |-> n]

JsBoolean(b) == [kind |-> "boolean", value |-> b]

\* new Date().toISOString(): a text of the clock, no placeholder
IsoNow == JsString("toISOString")

\* the schemas of the document d10, one for each way a default is found
DefaultSchemas ==
    << [type |-> "integer", default |-> JsNumber(5), enum |-> <<JsNumber(7)>>],
       [type |-> "string", enum |-> <<JsString("a"), JsString("b")>>],
       [type |-> "array",
        items |-> [type |-> "object", properties |-> [a |-> [type |-> "integer"]]]],
       [type |-> "array", items |-> [type |-> "integer"]],
       [type |-> "object", properties |-> [a |-> [type |-> "integer"]]],
       [type |-> "boolean"],
       [type |-> "number"],
       [type |-> "string"],
       [type |-> "string", format |-> "date-time"],
       [type |-> "array", items |-> [type |-> "string", default |-> JsString("x")]],
       [properties |-> [b |-> [type |-> "boolean"]]] >>

MethodNames == <<"get", "post", "put", "patch", "delete", "options", "head", "trace">>

\* a document with one operation for each schema of DefaultSchemas
DefaultsDoc ==
    [ paths |-> <<
        [ path |-> <<"/defaults">>,
          entries |-> [i \in 1..8 |->
                          Entry(MethodNames[i], TRUE,
                                SchemaOperation(RefSchema(<<"D", i>>)))] ],
        [ path |-> <<"/more">>,
          entries |-> [i \in 1..(Len(DefaultSchemas) - 8) |->
                          Entry(MethodNames[i], TRUE,
                                SchemaOperation(RefSchema(<<"D", i + 8>>)))] ] >>,
      securitySchemes |-> << >>,
      servers |-> << >>,
      schemas |-> [name \in {<<"D", i>> : i \in 1..Len(DefaultSchemas)} |->
                      DefaultSchemas[name[2]]] ]

\* the schemas of the document d11: M1 has fields of its own and three
\* branches, a reference, an inline schema and a reference, whose
\* properties, required names and other fields collide
MergeSchemas ==
    << [title |-> "own", description |-> "own", nullable |-> TRUE,
        properties |-> [own |-> [type |-> "string"]],
        required |-> <<"own">>,
        allOf |-> << RefSchema(<<"M", 2>>),
                     [title |-> "second",
                      properties |-> [a |-> [type |-> "integer"],
                                      c |-> [type |-> "string"]],
                      required |-> <<"a", "c">>],
                     RefSchema(<<"M", 3>>) >>],
       [type |-> "object", title |-> "first", description |-> "first",
        properties |-> [a |-> [type |-> "string"], b |-> [type |-> "boolean"]],
        required |-> <<"a", "b">>],
       [properties |-> [b |-> [type |-> "integer"]], required |-> <<"b", "a">>],
       [allOf |-> << [type |-> "object"], RefSchema(<<"M", 9>>) >>],
       [allOf |-> << RefSchema(<<"M", 1>>), [type |-> "string", title |-> "last"] >>] >>

\* a document with one operation for each schema of MergeSchemas
MergeDoc ==
    [ paths |-> <<
        [ path |-> <<"/merge">>,
          entries |-> [i \in 1..Len(MergeSchemas) |->
                          Entry(MethodNames[i], TRUE,
                                SchemaOperation(RefSchema(<<"M", i>>)))] ] >>,
      securitySchemes |-> << >>,
      servers |-> << >>,
      schemas |-> [name \in {<<"M", i>> : i \in 1..Len(MergeSchemas)} |->
                      MergeSchemas[name[2]]] ]

\* the document d12: four operations, each requiring one scheme that
\* compiles to an Authorization header
AuthDoc ==
    [ paths |-> <<
        [ path |-> <<"/auth">>,
          entries |-> <<
            Entry("get", TRUE, Operation(<< >>, << >>, << {"bearerAuth"} >>)),
            Entry("post", TRUE, Operation(<< >>, << >>, << {"digestAuth"} >>)),
            Entry("put", TRUE, Operation(<< >>, << >>, << {"oauth"} >>)),
            Entry("delete", TRUE, Operation(<< >>, << >>, << {"oidc"} >>)) >> ] >>,
      securitySchemes |-> <<
        [key |-> "bearerAuth", type |-> "http", in |-> "", name |-> "",
         scheme |-> "bearer"],
        [key |-> "digestAuth", type |-> "http", in |-> "", name |-> "",
         scheme |-> "Digest"],
        [key |-> "oauth", type |-> "oauth2", in |-> "", name |-> "", scheme |-> ""],
        [key |-> "oidc", type |-> "openIdConnect", in |-> "", name |-> "",
         scheme |-> ""] >>,
      servers |-> << >>,
      schemas |-> << >> ]

CycleDocNames ==
    <<"cycle1", "cycle2", "cycle3", "cycle4", "cycle5", "cycle6", "cycle7", "cycle8",
      "cycle9">>

CycleDocIds == {CycleDocNames[n] : n \in 1..MaxCycleLength}

CycleLength(id) == CHOOSE n \in 1..MaxCycleLength : CycleDocNames[n] = id

WrittenDocs ==
    [ d1 |->
        [ paths |-> <<
            [ path |-> <<"/ping">>,
              entries |-> << Entry("get", TRUE, Operation(<< >>, << >>, << >>)) >> ],
            [ path |-> <<"/users/", "{id}">>,
              entries |-> <<
                Entry("summary", FALSE, NoOperation),
                Entry("post", TRUE,
                      Operation(<< Param("id", "path", NoDefault),
                                   Param("api_key", "query", NoDefault) >>,
                                << [type |-> "application/json",
                                    body |-> JsonDefaultBody] >>,
                                << {"bearerAuth"} >>)) >> ] >>,
          securitySchemes |-> <<
            [key |-> "apiKeyQuery", type |-> "apiKey", in |-> "query",
             name |-> "api_key", scheme |-> ""],
            [key |-> "bearerAuth", type |-> "http", in |-> "",
             name |-> "", scheme |-> "bearer"],
            [key |-> "oauth", type |-> "oauth2", in |-> "",
             name |-> "", scheme |-> ""] >>,
          servers |-> <<
            [ url |-> <<"https://", "{env}", ".example.com">>,
              variables |-> << [name |-> "env", default |-> NoDefault,
                                enum |-> <<"dev", "prod">>] >> ] >> ],
      d2 |->
        [ paths |-> <<
            [ path |-> <<"/ping">>,
              entries |-> << Entry("get", TRUE, Operation(<< >>, << >>, << >>)) >> ],
            [ path |-> <<"/items/", "{id}">>,
              entries |-> <<
                Entry("delete", TRUE,
                      Operation(<< Param("id", "path", Default(<<"1">>)),
                                   Param("X-Key", "header", NoDefault) >>,
                                << >>,
                                << >>)),
                Entry("x-internal", TRUE, NoOperation) >> ] >>,
          securitySchemes |-> <<
            [key |-> "apiKeyHeader", type |-> "apiKey", in |-> "header",
             name |-> "X-Key", scheme |-> ""],
            [key |-> "session", type |-> "apiKey", in |-> "cookie",
             name |-> "sid", scheme |-> ""],
            [key |-> "basicAuth", type |-> "http", in |-> "",
             name |-> "", scheme |-> "basic"] >>,
          servers |-> << >> ],
      d3 |->
        [ paths |-> <<
            [ path |-> <<"/users/", "{id}", "/posts/", "{postId}">>,
              entries |-> <<
                Entry("get", TRUE,
                      Operation(<< Param("id", "path", NoDefault),
                                   Param("postId", "path", NoDefault) >>,
                                << >>,
                                << >>)),
                Entry("delete", TRUE,
                      Operation(<< Param("id", "path", NoDefault) >>,
                                << >>,
                                << >>)) >> ] >>,
          securitySchemes |-> << >>,
          servers |-> << >> ],
      d4 |->
        [ paths |-> <<
            [ path |-> <<"/notes">>,
              entries |-> <<
                Entry("post", TRUE,
                      Operation(<< >>,
                                << [type |-> "text/plain", body |-> TextDefaultBody],
                                   [type |-> "application/json",
                                    body |-> JsonDefaultBody] >>,
                                << >>)),
                Entry("delete", TRUE,
                      Operation(<< >>,
                                << [type |-> "text/plain", body |-> TextDefaultBody] >>,
                                << >>)),
                Entry("get", TRUE, NoOperation) >> ] >>,
          securitySchemes |-> << >>,
          servers |-> << >> ],
      d5 |->
        [ paths |-> <<
            [ path |-> <<"/odd">>,
              entries |-> <<
                Entry("GET", TRUE, NoOperation),
                Entry("get", FALSE, NoOperation),
                Entry("parameters", TRUE, NoOperation),
                Entry("head", TRUE, NoOperation),
                Entry("trace", TRUE, NoOperation) >> ],
            [ path |-> <<"/scalar">>, entries |-> << >>, isObject |-> FALSE ],
            [ path |-> <<"/empty">>, entries |-> << >> ],
            [ path |-> <<"/odd/">>,
              entries |-> << Entry("head", TRUE, NoOperation) >> ] >>,
          securitySchemes |-> << >>,
          servers |-> << >> ],
      d7 |->
        [ paths |-> <<
            [ path |-> <<"/responses">>,
              entries |-> <<
                Entry("get", TRUE,
                      ResponsesOperation(<< Declared("404", ResponseObject("X")),
                                            Declared("200", ResponseObject("Y")) >>)),
                Entry("post", TRUE,
                      ResponsesOperation(<< Declared("404", ResponseObject("X")),
                                            Declared("default", ResponseObject("Z")) >>)),
                Entry("put", TRUE,
                      ResponsesOperation(<< Declared("500", ResponseObject("A")),
                                            Declared("404", ResponseObject("B")) >>)),
                Entry("patch", TRUE,
                      ResponsesOperation(<< Declared("4XX", ResponseObject("C")),
                                            Declared("201", ResponseObject("D")),
                                            Declared("200", ResponseObject("E")) >>)),
                Entry("delete", TRUE, ResponsesOperation(<< >>)) >> ] >>,
          securitySchemes |-> << >>,
          servers |-> << >> ],
      d6 |->
        [ paths |-> <<
            [ path |-> <<"0">>,
              entries |-> << Entry("get", TRUE, NoOperation) >> ] >>,
          pathsIsRecord |-> FALSE,
          securitySchemes |-> << >>,
          servers |-> << >> ],
      d8 |->
        [ paths |-> <<
            [ path |-> <<"/ping">>,
              entries |-> << Entry("get", TRUE, NoOperation),
                             Entry("post", TRUE, NoOperation) >> ] >>,
          securitySchemes |-> << >>,
          servers |-> <<
            [ url |-> <<"https://", "{env}", ".example.com">>,
              variables |-> << [name |-> "env", default |-> Default(<<"stage">>),
                                enum |-> <<"dev", "prod">>],
                               [name |-> "tier", default |-> NoDefault,
                                enum |-> <<"free", "paid">>],
                               [name |-> "zone", default |-> NoDefault,
                                enum |-> << >>] >> ],
            [ url |-> <<"https://api.example.com">>, variables |-> << >> ] >> ],
      d9 |->
        [ paths |-> <<
            [ path |-> <<"/upload">>,
              entries |-> <<
                Entry("post", TRUE,
                      Operation(<< Param("Content-Type", "header", NoDefault) >>,
                                << [type |-> "multipart/form-data",
                                    body |-> TextDefaultBody],
                                   [type |-> "text/plain", body |-> TextDefaultBody] >>,
                                << >>)),
                Entry("delete", TRUE,
                      Operation(<< >>,
                                << [type |-> "multipart/form-data",
                                    body |-> TextDefaultBody] >>,
                                << >>)) >> ] >>,
          securitySchemes |-> << >>,
          servers |-> << >> ] ]

Docs ==
    WrittenDocs @@ [id \in CycleDocIds |-> CycleDoc(CycleLength(id))]
        @@ [id \in {"d10"} |-> DefaultsDoc] @@ [id \in {"d11"} |-> MergeDoc]
        @@ [id \in {"d12"} |-> AuthDoc]

DocIds == DOMAIN Docs

\* ------------------------------------------------------------------------
\* Specification texts and parseMetadataText
\* ------------------------------------------------------------------------

\* A raw text: the first syntax that accepts it (json, json5, yaml, none), the
\* kind of its top-level value, and for the fields the validation reads
\* whether they are absent, falsy or truthy; doc names the parsed content.
Text(id, syntax, top, openapi, swagger, info, paths, doc) ==
    [id |-> id, syntax |-> syntax, top |-> top, openapi |-> openapi,
     swagger |-> swagger, info |-> info, paths |-> paths, doc |-> doc]

TextD1 == Text("t1", "json", "object", "truthy", "absent", "truthy", "truthy", "d1")
TextD2 == Text("t2", "yaml", "object", "absent", "truthy", "truthy", "truthy", "d2")
TextD3 == Text("t6", "json", "object", "truthy", "absent", "truthy", "truthy", "d3")
TextD4 == Text("t7", "json", "object", "truthy", "absent", "truthy", "truthy", "d4")
CycleTexts ==
    {Text(id, "json", "object", "truthy", "absent", "truthy", "truthy", id) :
        id \in CycleDocIds}

TextD5 == Text("t8", "json", "object", "truthy", "absent", "truthy", "truthy", "d5")
TextD6 == Text("t9", "yaml", "object", "truthy", "absent", "truthy", "truthy", "d6")
TextD7 == Text("t10", "json", "object", "truthy", "absent", "truthy", "truthy", "d7")
TextD8 == Text("t11", "json", "object", "truthy", "absent", "truthy", "truthy", "d8")
TextD9 == Text("t12", "json", "object", "truthy", "absent", "truthy", "truthy", "d9")
TextD10 == Text("t13", "json", "object", "truthy", "absent", "truthy", "truthy", "d10")
TextD11 == Text("t14", "json", "object", "truthy", "absent", "truthy", "truthy", "d11")
TextD12 == Text("t15", "json", "object", "truthy", "absent", "truthy", "truthy", "d12")
TextNoPaths == Text("t3", "json5", "object", "truthy", "absent", "truthy", "absent", "d1")
TextArray == Text("t4", "json", "array", "absent", "absent", "absent", "absent", "d1")
TextGarbage == Text("t5", "none", "none", "absent", "absent", "absent", "absent", "d1")

EmptyText == Text("", "none", "none", "absent", "absent", "absent", "absent", "d1")

Texts == {TextD1, TextD2, TextNoPaths, TextArray, TextGarbage}

Failure(message) == [ok |-> FALSE, error |-> message]

Success(value) == [ok |-> TRUE, value |-> value]

Truthy(field) == field = "truthy"

\* the object a text parses to
ParsedObject(raw) ==
    [openapi |-> raw.openapi, swagger |-> raw.swagger, info |-> raw.info,
     paths |-> raw.paths, doc |-> raw.doc]

\* parseMetadataText without the check of info and paths
parseMetadataTextUnchecked(raw) ==
    IF raw.syntax \notin {"json", "json5", "yaml"}
    THEN Failure("Failed to parse metadata.")
    ELSE IF raw.top # "object"
    THEN Failure("Invalid OpenAPI spec: must be an object.")
    ELSE IF ~Truthy(raw.openapi) /\ ~Truthy(raw.swagger)
    THEN Failure("Invalid OpenAPI spec: missing 'openapi' or 'swagger' version.")
    ELSE Success(ParsedObject(raw))

parseMetadataText(raw) ==
    IF raw.syntax \notin {"json", "json5", "yaml"}
    THEN Failure("Failed to parse metadata.")
    ELSE IF raw.top # "object"
    THEN Failure("Invalid OpenAPI spec: must be an object.")
    ELSE IF ~Truthy(raw.openapi) /\ ~Truthy(raw.swagger)
    THEN Failure("Invalid OpenAPI spec: missing 'openapi' or 'swagger' version.")
    ELSE IF ~Truthy(raw.info) \/ ~Truthy(raw.paths)
    THEN Failure("Invalid OpenAPI spec: missing 'info' or 'paths'.")
    ELSE Success(ParsedObject(raw))

\* the 32-bit hash of a text: equal texts hash alike
hashText(raw) == raw.id

\* ------------------------------------------------------------------------
\* Views of the loaded document
\* ------------------------------------------------------------------------

Null == [null |-> TRUE]

NoKey == << >>

\* an ApiListItem of one (path, method) entry
ApiListItem(pathItem, entry) ==
    [key |-> <<toUpperCase(entry.key), pathItem.path>>,
     method |-> toUpperCase(entry.key),
     path |-> pathItem.path,
     op |-> entry.op]

\* the operations of one path item: the entries whose key is an HTTP method
\* and whose value is an object
\* the value under a path is an object (typeof 'object', not null)
pathItemIsObject(pathItem) == ~Has(pathItem, "isObject") \/ pathItem.isObject

\* isRecord(spec.paths)
pathsIsRecord(doc) == ~Has(doc, "pathsIsRecord") \/ doc.pathsIsRecord

\* the operations of a path item that takes every key for a method
pathOperationsOfEveryKey(pathItem) ==
    [j \in 1..Len(pathItem.entries) |-> ApiListItem(pathItem, pathItem.entries[j])]

pathOperations(pathItem) ==
    IF ~pathItemIsObject(pathItem) THEN << >>
    ELSE
    [j \in 1..Len(SelectSeq(pathItem.entries,
                            LAMBDA e : e.key \in HTTP_METHODS /\ e.isObject)) |->
        ApiListItem(pathItem,
                    SelectSeq(pathItem.entries,
                              LAMBDA e : e.key \in HTTP_METHODS /\ e.isObject)[j])]

apiList(md) ==
    IF md = Null THEN << >>
    ELSE IF ~pathsIsRecord(Docs[md.spec.doc]) THEN << >>
    ELSE Concat([i \in 1..Len(Docs[md.spec.doc].paths) |->
                    pathOperations(Docs[md.spec.doc].paths[i])])

\* list.find(item => item.key === key) ?? null
findByKey(list, key) ==
    IF \E i \in 1..Len(list) : list[i].key = key
    THEN list[MinOf({i \in 1..Len(list) : list[i].key = key})]
    ELSE Null

selectedApiOf(md, key) == findByKey(apiList(md), key)

requestParameters(api) == IF api = Null THEN << >> ELSE api.op.parameters

toParamDefaults(params, location) ==
    LET names == {params[i].name : i \in {j \in 1..Len(params) : params[j].in = location}}
        last(n) == CHOOSE i \in 1..Len(params) :
                      /\ params[i].in = location /\ params[i].name = n
                      /\ \A j \in 1..Len(params) :
                            (params[j].in = location /\ params[j].name = n) => j <= i
    IN  [n \in names |-> IF params[last(n)].default.has
                         THEN params[last(n)].default.value ELSE << >>]

securitySchemesOf(md) ==
    IF md = Null THEN << >> ELSE Docs[md.spec.doc].securitySchemes

getRequestContentTypes(api) ==
    IF api = Null THEN << >>
    ELSE [i \in 1..Len(api.op.content) |-> api.op.content[i].type]

EndsWithPlusJson(type) == type \in {"application/vnd.api+json"}

pickRequestContentType(keys) ==
    LET has(t) == \E i \in 1..Len(keys) : keys[i] = t
        plus == {i \in 1..Len(keys) : EndsWithPlusJson(keys[i])}
    IN  IF keys = << >> THEN ""
        ELSE IF has("application/json") THEN "application/json"
        ELSE IF plus # {} THEN keys[MinOf(plus)]
        ELSE IF has("multipart/form-data") THEN "multipart/form-data"
        ELSE IF has("application/x-www-form-urlencoded")
             THEN "application/x-www-form-urlencoded"
        ELSE IF has("text/plain") THEN "text/plain"
        ELSE keys[1]

\* the default body of a content type: the JSON text of the schema default
getRequestBodyDefault(api, contentType) ==
    IF api # Null /\ \E i \in 1..Len(api.op.content) : api.op.content[i].type = contentType
    THEN api.op.content[MinOf({i \in 1..Len(api.op.content) :
                                  api.op.content[i].type = contentType})].body
    ELSE << >>

\* ------------------------------------------------------------------------
\* Schemas
\* ------------------------------------------------------------------------

MAX_SCHEMA_RESOLUTION_DEPTH == 6

\* components.schemas of the document
componentSchemas(md) ==
    IF md = Null \/ ~Has(Docs[md.spec.doc], "schemas") THEN EmptyMap
    ELSE Docs[md.spec.doc].schemas

\* ref.split('/').pop()
lastSegment(ref) == Tail(ref)

getSchemaFromRef(schemas, ref) ==
    IF ref = << >> \/ ~Has(schemas, lastSegment(ref)) THEN Null
    ELSE schemas[lastSegment(ref)]

\* the schema of the request body for the content type picked
getRequestSchema(schemas, api) ==
    IF api = Null \/ api.op.content = << >> THEN Null
    ELSE LET type == pickRequestContentType(getRequestContentTypes(api))
             entry == api.op.content[MinOf({i \in 1..Len(api.op.content) :
                                              api.op.content[i].type = type})]
         IN  IF ~Has(entry, "schema") THEN Null
             ELSE IF Has(entry.schema, "$ref")
             THEN getSchemaFromRef(schemas, entry.schema["$ref"])
             ELSE entry.schema

\* Array.from(new Set(list))
RECURSIVE uniqueInOrder(_)
uniqueInOrder(list) ==
    IF list = << >> THEN << >>
    ELSE LET front == uniqueInOrder(SubSeq(list, 1, Len(list) - 1))
         IN  IF \E i \in 1..Len(front) : front[i] = list[Len(list)]
             THEN front ELSE Append(front, list[Len(list)])

\* a step of the reduce in which what is already merged wins a collision
mergeResolvedEarlierWins(acc, resolved) ==
    LET resolvedRecord == IF resolved = Null THEN EmptyMap ELSE resolved
    IN  Spread(Spread(resolvedRecord, acc),
               [properties |->
                    Spread(IF Has(resolvedRecord, "properties")
                           THEN resolvedRecord.properties ELSE EmptyMap,
                           IF Has(acc, "properties") THEN acc.properties ELSE EmptyMap),
                required |->
                    uniqueInOrder(
                        (IF Has(acc, "required") THEN acc.required ELSE << >>)
                        \o (IF Has(resolvedRecord, "required")
                            THEN resolvedRecord.required ELSE << >>))])

\* one step of the reduce over allOf
mergeResolved(acc, resolved) ==
    LET resolvedRecord == IF resolved = Null THEN EmptyMap ELSE resolved
    IN  Spread(Spread(acc, resolvedRecord),
               [properties |->
                    Spread(IF Has(acc, "properties") THEN acc.properties ELSE EmptyMap,
                           IF Has(resolvedRecord, "properties")
                           THEN resolvedRecord.properties ELSE EmptyMap),
                required |->
                    uniqueInOrder(
                        (IF Has(acc, "required") THEN acc.required ELSE << >>)
                        \o (IF Has(resolvedRecord, "required")
                            THEN resolvedRecord.required ELSE << >>))])

RECURSIVE mergeAll(_, _)
mergeAll(acc, resolvedItems) ==
    IF resolvedItems = << >> THEN acc
    ELSE mergeAll(mergeResolved(acc, Head(resolvedItems)), Tail(resolvedItems))

IsNonEmptyList(schema, key) == Has(schema, key) /\ schema[key] # << >>

\* a reference that is never taken as met before
seenNone(seenRefs, ref) == FALSE

\* seenRefs.has(schema.$ref)
seenBefore(seenRefs, ref) == ref \in seenRefs

\* a depth bound that lets one more descent through
depthExceededLater(depth) == depth > MAX_SCHEMA_RESOLUTION_DEPTH + 1

\* depth > MAX_SCHEMA_RESOLUTION_DEPTH
depthExceeded(depth) == depth > MAX_SCHEMA_RESOLUTION_DEPTH

RECURSIVE resolveSchema(_, _, _, _)
resolveSchema(schemas, schema, seenRefs, depth) ==
    IF depthExceeded(depth) THEN schema
    ELSE IF schema = Null THEN schema
    ELSE IF Has(schema, "$ref")
    THEN IF seenBefore(seenRefs, schema["$ref"])
         THEN Put(schema, "circularRef", TRUE)
         ELSE IF getSchemaFromRef(schemas, schema["$ref"]) = Null
         THEN schema
         ELSE resolveSchema(schemas, getSchemaFromRef(schemas, schema["$ref"]),
                            seenRefs \cup {schema["$ref"]}, depth + 1)
    ELSE IF IsNonEmptyList(schema, "allOf")
    THEN Spread(schema,
                mergeAll(EmptyMap,
                         [i \in 1..Len(schema.allOf) |->
                             resolveSchema(schemas, schema.allOf[i], seenRefs, depth + 1)]))
    ELSE IF IsNonEmptyList(schema, "oneOf")
    THEN Put(schema, "oneOf",
             [i \in 1..Len(schema.oneOf) |->
                 resolveSchema(schemas, schema.oneOf[i], seenRefs, depth + 1)])
    ELSE IF IsNonEmptyList(schema, "anyOf")
    THEN Put(schema, "anyOf",
             [i \in 1..Len(schema.anyOf) |->
                 resolveSchema(schemas, schema.anyOf[i], seenRefs, depth + 1)])
    ELSE IF Has(schema, "properties")
    THEN Put(schema, "properties",
             [k \in DOMAIN schema.properties |->
                 resolveSchema(schemas, schema.properties[k], seenRefs, depth + 1)])
    ELSE IF Has(schema, "items")
    THEN Put(schema, "items", resolveSchema(schemas, schema.items, seenRefs, depth + 1))
    ELSE schema

\* ------------------------------------------------------------------------
\* buildDefaultFromSchema
\* ------------------------------------------------------------------------

isRecord(value) == value.kind = "object"

\* the reduce over allOf: { ...acc, ...(isRecord(built) ? built : {}) }
RECURSIVE spreadBuilt(_, _)
spreadBuilt(acc, builtItems) ==
    IF builtItems = << >> THEN acc
    ELSE spreadBuilt(IF isRecord(Head(builtItems))
                     THEN Spread(acc, Head(builtItems).value) ELSE acc,
                     Tail(builtItems))

\* isRecord(item) ? [item] : []
arrayOf(item) == IF isRecord(item) THEN JsArray(<<item>>) ELSE JsArray(<< >>)

RECURSIVE buildDefaultFromSchema(_, _, _)
buildDefaultFromSchema(schemas, schema, depth) ==
    IF schema = Null \/ depthExceeded(depth) THEN JsObject(EmptyMap)
    ELSE IF Has(schema, "$ref")
    THEN buildDefaultFromSchema(schemas, getSchemaFromRef(schemas, schema["$ref"]),
                                depth + 1)
    ELSE IF IsNonEmptyList(schema, "allOf")
    THEN JsObject(spreadBuilt(EmptyMap,
                     [i \in 1..Len(schema.allOf) |->
                         buildDefaultFromSchema(schemas, schema.allOf[i], depth + 1)]))
    ELSE IF IsNonEmptyList(schema, "oneOf")
    THEN buildDefaultFromSchema(schemas, schema.oneOf[1], depth + 1)
    ELSE IF IsNonEmptyList(schema, "anyOf")
    THEN buildDefaultFromSchema(schemas, schema.anyOf[1], depth + 1)
    ELSE IF Has(schema, "default") THEN schema.default
    ELSE IF IsNonEmptyList(schema, "enum") THEN schema.enum[1]
    ELSE IF Has(schema, "type") /\ schema.type = "array"
    THEN arrayOf(IF Has(schema, "items")
                 THEN buildDefaultFromSchema(schemas, schema.items, depth + 1)
                 ELSE JsObject(EmptyMap))
    ELSE IF (Has(schema, "type") /\ schema.type = "object") \/ Has(schema, "properties")
    THEN JsObject([k \in DOMAIN (IF Has(schema, "properties")
                                 THEN schema.properties ELSE EmptyMap) |->
                      buildDefaultFromSchema(schemas, schema.properties[k], depth + 1)])
    ELSE IF Has(schema, "type") /\ schema.type = "boolean" THEN JsBoolean(FALSE)
    ELSE IF Has(schema, "type") /\ schema.type \in {"integer", "number"}
    THEN JsNumber(0)
    ELSE IF Has(schema, "format") /\ schema.format = "date-time" THEN IsoNow
    ELSE JsString("string")

\* ------------------------------------------------------------------------
\* The response of an operation for a status
\* ------------------------------------------------------------------------

PREFERRED_RESPONSE_STATUSES == <<"200", "201", "202", "204", "default">>

\* no status is given (undefined)
NoStatus == ""

\* the number a property name denotes when it is a canonical array index,
\* and -1 for every other name
IntegerIndex(name) ==
    CASE name = "200" -> 200
      [] name = "201" -> 201
      [] name = "202" -> 202
      [] name = "204" -> 204
      [] name = "404" -> 404
      [] name = "418" -> 418
      [] name = "500" -> 500
      [] OTHER -> -1

\* String(status) of the status of a response
StatusText(status) ==
    CASE status = 200 -> "200"
      [] status = 204 -> "204"
      [] status = 500 -> "500"
      [] OTHER -> NoStatus

RECURSIVE ascending(_)
ascending(names) ==
    IF names = {} THEN << >>
    ELSE LET least == CHOOSE n \in names :
                         \A m \in names : IntegerIndex(n) <= IntegerIndex(m)
         IN  <<least>> \o ascending(names \ {least})

\* Object.keys of an object written with the entries given: the names that
\* are integer indices in ascending order, then the others as written
objectKeys(entries) ==
    ascending({entries[i].status : i \in {j \in 1..Len(entries) :
                                              IntegerIndex(entries[j].status) >= 0}})
    \o [i \in 1..Len(SelectSeq(entries, LAMBDA e : IntegerIndex(e.status) < 0)) |->
           SelectSeq(entries, LAMBDA e : IntegerIndex(e.status) < 0)[i].status]

\* responses[key], or Null for undefined
responseAt(entries, key) ==
    IF \E i \in 1..Len(entries) : entries[i].status = key
    THEN entries[CHOOSE i \in 1..Len(entries) : entries[i].status = key].response
    ELSE Null

isRecordValue(value) == value # Null /\ value.kind = "record"

firstResponse(entries, keys) ==
    IF keys # << >> /\ keys[1] # ""
    THEN IF isRecordValue(responseAt(entries, keys[1]))
         THEN responseAt(entries, keys[1]) ELSE Null
    ELSE Null

pickResponseByStatus(responses, status) ==
    IF responses = Null THEN Null
    ELSE IF status # NoStatus /\ isRecordValue(responseAt(responses, status))
    THEN responseAt(responses, status)
    ELSE IF \E i \in 1..Len(PREFERRED_RESPONSE_STATUSES) :
                responseAt(responses, PREFERRED_RESPONSE_STATUSES[i]) # Null
    THEN LET preferred ==
                 PREFERRED_RESPONSE_STATUSES[
                     MinOf({i \in 1..Len(PREFERRED_RESPONSE_STATUSES) :
                               responseAt(responses, PREFERRED_RESPONSE_STATUSES[i]) # Null})]
         IN  IF isRecordValue(responseAt(responses, preferred))
             THEN responseAt(responses, preferred) ELSE Null
    ELSE firstResponse(responses, objectKeys(responses))

\* operation.responses of the operation, when it is a record
operationResponses(api) ==
    IF api = Null \/ ~Has(api.op, "responses") THEN Null ELSE api.op.responses

\* ------------------------------------------------------------------------
\* The security compiler
\* ------------------------------------------------------------------------

\* a stored credential; a field that is no string reads as the empty string
SecurityValue(value, username, password) ==
    [value |-> value, username |-> username, password |-> password]

NoSecurityValue == SecurityValue(<< >>, << >>, << >>)

StartsWith(s, atom) == s # << >> /\ s[1] = atom

\* text that btoa rejects (a character outside Latin-1)
NonLatin1Atoms == {"pässwörd€"}

btoa(s) ==
    IF \E i \in 1..Len(s) : s[i] \in NonLatin1Atoms
    THEN Failure("InvalidCharacterError")
    ELSE Success(<<"base64(">> \o s \o <<")">>)

NoContribution == [target |-> "none", name |-> "", value |-> << >>]

Contribution(target, name, value) == [target |-> target, name |-> name, value |-> value]

\* the body of the forEach of buildSecurityPayload: what one scheme adds
schemeContribution(scheme, value, variables) ==
    LET token == resolveHeaderTemplate(value.value, variables)
        username == resolveHeaderTemplate(value.username, variables)
        password == resolveHeaderTemplate(value.password, variables)
        schemeType == toLowerCase(scheme.scheme)
    IN  CASE scheme.type = "apiKey" ->
                IF token = << >> \/ scheme.name = "" THEN NoContribution
                ELSE IF scheme.in \in {"header", "query", "cookie"}
                THEN Contribution(scheme.in, scheme.name, token)
                ELSE NoContribution
          [] scheme.type = "http" /\ schemeType = "basic" ->
                IF token # << >>
                THEN Contribution("header", "Authorization",
                         IF StartsWith(token, "Basic ") THEN token
                         ELSE <<"Basic ">> \o token)
                ELSE IF (username # << >> \/ password # << >>)
                        /\ btoa(username \o <<":">> \o password).ok
                THEN Contribution("header", "Authorization",
                         <<"Basic ">> \o btoa(username \o <<":">> \o password).value)
                ELSE NoContribution
          [] scheme.type = "http" /\ schemeType = "bearer" ->
                IF token = << >> THEN NoContribution
                ELSE Contribution("header", "Authorization",
                         IF toLowerCase(token[1]) = "bearer " THEN token
                         ELSE <<"Bearer ">> \o token)
          [] scheme.type = "http" /\ schemeType \notin {"basic", "bearer"} ->
                IF token = << >> THEN NoContribution
                ELSE Contribution("header", "Authorization",
                         <<schemeType, " ">> \o token)
          [] scheme.type \in {"oauth2", "openIdConnect"} ->
                IF token = << >> THEN NoContribution
                ELSE Contribution("header", "Authorization",
                         IF StartsWith(token, "Bearer ") THEN token
                         ELSE <<"Bearer ">> \o token)
          [] OTHER -> NoContribution

EmptyPayload ==
    [headers |-> EmptyMap, queryParams |-> EmptyMap, cookies |-> << >>,
     cookieJar |-> EmptyMap, useCookies |-> FALSE]

\* the precedence reversed: the global value first
securityValueForGlobalFirst(schemeKey, perOperation, global) ==
    IF Has(global, schemeKey) THEN global[schemeKey]
    ELSE IF Has(perOperation, schemeKey) THEN perOperation[schemeKey]
    ELSE NoSecurityValue

\* the credential the compiler reads for a scheme
securityValueFor(schemeKey, perOperation, global) ==
    IF Has(perOperation, schemeKey) THEN perOperation[schemeKey]
    ELSE IF Has(global, schemeKey) THEN global[schemeKey]
    ELSE NoSecurityValue

addContribution(acc, c) ==
    CASE c.target = "header" ->
            [acc EXCEPT !.headers = Put(acc.headers, c.name, c.value)]
      [] c.target = "query" ->
            [acc EXCEPT !.queryParams = Put(acc.queryParams, c.name, c.value)]
      [] c.target = "cookie" ->
            [acc EXCEPT !.cookies = Append(acc.cookies,
                                       <<c.name, "=">> \o encodeURIComponent(c.value)),
                        !.cookieJar = Put(acc.cookieJar, c.name,
                                          encodeURIComponent(c.value)),
                        !.useCookies = TRUE]
      [] OTHER -> acc

RECURSIVE JoinCookies(_)
JoinCookies(cookies) ==
    IF Len(cookies) = 1 THEN cookies[1]
    ELSE cookies[1] \o <<"; ">> \o JoinCookies(Tail(cookies))

\* a compiler that stops after the first declared scheme
foldSchemesFirstOnly(acc, schemes, perOperation, global, variables) ==
    IF schemes = << >> THEN acc
    ELSE addContribution(acc,
             schemeContribution(Head(schemes),
                 IF Has(perOperation, Head(schemes).key)
                 THEN perOperation[Head(schemes).key]
                 ELSE IF Has(global, Head(schemes).key) THEN global[Head(schemes).key]
                 ELSE NoSecurityValue,
                 variables))

RECURSIVE foldSchemes(_, _, _, _, _)
foldSchemes(acc, schemes, perOperation, global, variables) ==
    IF schemes = << >> THEN acc
    ELSE foldSchemes(
             addContribution(acc,
                 schemeContribution(Head(schemes),
                     securityValueFor(Head(schemes).key, perOperation, global),
                     variables)),
             Tail(schemes), perOperation, global, variables)

buildSecurityPayload(schemes, perOperation, global, variables) ==
    LET acc == foldSchemes(EmptyPayload, schemes, perOperation, global, variables)
    IN  IF acc.cookies # << >>
        THEN [acc EXCEPT !.headers = Put(acc.headers, "Cookie", JoinCookies(acc.cookies))]
        ELSE acc

\* ------------------------------------------------------------------------
\* Request assembly (the synchronous part of sendRequest)
\* ------------------------------------------------------------------------

LowerHeaderName(name) ==
    CASE name = "Content-Type" -> "content-type"
      [] name = "Cookie" -> "cookie"
      [] name = "Authorization" -> "authorization"
      [] name = "X-Key" -> "x-key"
      [] OTHER -> name

\* the content type of the request: the user's selection when the operation
\* offers it, the preferred one otherwise
chooseContentType(options, selected) ==
    IF options = << >> THEN ""
    ELSE IF selected # "" /\ \E i \in 1..Len(options) : options[i] = selected
    THEN selected
    ELSE pickRequestContentType(options)

requestContentTypeOf(api, key, selections) ==
    chooseContentType(getRequestContentTypes(api),
                      IF Has(selections, key) THEN selections[key] ELSE "")

isJsonContentType(contentType) ==
    \/ contentType = ""
    \/ contentType \in {"application/json", "application/vnd.api+json"}

\* text that is only white space
WhitespaceAtoms == {" ", "\n"}

TrimIsEmpty(text) == \A i \in 1..Len(text) : text[i] \in WhitespaceAtoms

\* the body texts JSON5.parse accepts
JSON5Bodies == {JsonDefaultBody, <<"{name:'x',}">>, <<"{\"token\":\"", "abc", "\"}">>}

JSON5Parses(text) == text \in JSON5Bodies

\* a merge in which the security value replaces what the user typed
mergeSecurityQueryOverwrites(queryParams, securityQuery) ==
    Spread(queryParams, securityQuery)

mergeSecurityQuery(queryParams, securityQuery) ==
    [k \in DOMAIN queryParams \cup DOMAIN securityQuery |->
        IF Has(securityQuery, k) /\ (~Has(queryParams, k) \/ queryParams[k] = << >>)
        THEN securityQuery[k]
        ELSE queryParams[k]]

\* a merge in which the security header replaces an explicit one
mergeSecurityHeadersOverwrites(requestHeaders, securityHeaders) ==
    Spread(requestHeaders, securityHeaders)

mergeSecurityHeaders(requestHeaders, securityHeaders) ==
    [k \in DOMAIN requestHeaders \cup DOMAIN securityHeaders |->
        IF ~Has(securityHeaders, k) THEN requestHeaders[k]
        ELSE IF ~Has(requestHeaders, k) \/ requestHeaders[k] = << >>
        THEN securityHeaders[k]
        ELSE IF LowerHeaderName(k) = "cookie"
        THEN requestHeaders[k] \o <<"; ">> \o securityHeaders[k]
        ELSE requestHeaders[k]]

withContentType(requestHeaders, contentType) ==
    IF contentType # ""
       /\ ~\E k \in DOMAIN requestHeaders : LowerHeaderName(k) = "content-type"
    THEN Put(requestHeaders, "Content-Type", <<contentType>>)
    ELSE requestHeaders

NoData == [kind |-> "none", text |-> << >>]

\* the body handed to the transport, or the JSON5 failure
encodeBody(text, contentType) ==
    IF TrimIsEmpty(text) THEN Success(NoData)
    ELSE IF isJsonContentType(contentType)
    THEN IF JSON5Parses(text) THEN Success([kind |-> "json", text |-> text])
         ELSE Failure("Invalid JSON")
    ELSE IF contentType = "multipart/form-data"
    THEN Success([kind |-> "formData", text |-> text])
    ELSE IF contentType = "application/x-www-form-urlencoded"
    THEN Success([kind |-> "urlencoded", text |-> text])
    ELSE Success([kind |-> "text", text |-> text])

\* ------------------------------------------------------------------------
\* Servers
\* ------------------------------------------------------------------------

ServerPlaceholderAtoms == {"{env}"}

ServerPlaceholderName(atom) == IF atom = "{env}" THEN "env" ELSE ""

\* { name, defaultValue: default ?? enum[0], enum }
normalizeServerVariables(variables) ==
    [i \in 1..Len(variables) |->
        [name |-> variables[i].name,
         defaultValue |-> IF variables[i].default.has THEN variables[i].default
                          ELSE IF variables[i].enum # << >>
                          THEN Default(<<variables[i].enum[1]>>)
                          ELSE NoDefault,
         enum |-> variables[i].enum]]

resolveServerUrl(url, variables) ==
    Concat([i \in 1..Len(url) |->
        LET hits == {j \in 1..Len(variables) :
                        variables[j].name = ServerPlaceholderName(url[i])}
        IN  IF url[i] \in ServerPlaceholderAtoms /\ hits # {}
               /\ variables[MinOf(hits)].defaultValue.has
            THEN variables[MinOf(hits)].defaultValue.value
            ELSE <<url[i]>>])

resolveServerUrlWithValues(url, values) ==
    Concat([i \in 1..Len(url) |->
        IF url[i] \in ServerPlaceholderAtoms
           /\ Has(values, ServerPlaceholderName(url[i]))
           /\ values[ServerPlaceholderName(url[i])] # << >>
        THEN values[ServerPlaceholderName(url[i])]
        ELSE <<url[i]>>])

getResolvedServerInfo(server) ==
    [templateUrl |-> server.url,
     variables |-> normalizeServerVariables(server.variables),
     resolvedUrl |-> resolveServerUrl(server.url, normalizeServerVariables(server.variables))]

\* values in which the declared default replaces a stored value
serverVariableValuesDeclaredFirst(variables, prevValues) ==
    [n \in {variables[i].name : i \in 1..Len(variables)} |->
        LET v == variables[CHOOSE i \in 1..Len(variables) :
                     /\ variables[i].name = n
                     /\ \A j \in 1..Len(variables) : variables[j].name = n => j <= i]
        IN  IF v.defaultValue.has THEN v.defaultValue.value
            ELSE IF Has(prevValues, n) THEN prevValues[n]
            ELSE IF v.enum # << >> THEN <<v.enum[1]>>
            ELSE << >>]

serverVariableValues(variables, prevValues) ==
    [n \in {variables[i].name : i \in 1..Len(variables)} |->
        LET v == variables[CHOOSE i \in 1..Len(variables) :
                     /\ variables[i].name = n
                     /\ \A j \in 1..Len(variables) : variables[j].name = n => j <= i]
        IN  IF Has(prevValues, n) THEN prevValues[n]
            ELSE IF v.defaultValue.has THEN v.defaultValue.value
            ELSE IF v.enum # << >> THEN <<v.enum[1]>>
            ELSE << >>]

buildMetadataServerVariableState(servers, existing) ==
    LET keyed == {i \in 1..Len(servers) : servers[i].url # << >>}
        lastOf(k) == CHOOSE i \in keyed :
                        servers[i].url = k /\ \A j \in keyed : servers[j].url = k => j <= i
    IN  [k \in {servers[i].url : i \in keyed} |->
            serverVariableValues(getResolvedServerInfo(servers[lastOf(k)]).variables,
                                 IF Has(existing, k) THEN existing[k] ELSE EmptyMap)]

serversOf(md) == IF md = Null THEN << >> ELSE Docs[md.spec.doc].servers

\* ------------------------------------------------------------------------
\* The state of the store
\* ------------------------------------------------------------------------

VARIABLES
    \* the loaded specification
    metadata, currentSpecKey, loadUrl, loadedFromPaste, metadataDraft,
    \* saved sources and the source dialog
    savedSources, selectedSourceKey, sourceDraftKey, sourceDraftType,
    sourceDraftValue, sourceDialogOpen,
    \* the load in progress: flag and cancellation token
    isLoadingMetadata, loadAbortController,
    \* the request draft
    selectedKey, pathParams, queryParams, headerParams, requestBody,
    requestContentTypeSelections, requestBodiesByContentType,
    \* the response and its history
    response, responseHistory, responseHistoryBySpec,
    \* headers
    headerDraft, headerMappingDraft, globalHeaders, headerVariables, headerDialogOpen,
    \* servers
    metadataServerVariables, activeServerKey, activeServerUrl,
    \* credentials
    globalSecurityValues, securityValues,
    \* the environment: fetches and timers of loads, requests at the
    \* transport, notifications, the browser's cookie store
    loads, sends, toasts, documentCookie,
    \* history variables: the settle events of the last step, the last
    \* completed send, the operation selected when a credential was stored,
    \* and the counters the bounds guard
    settled, lastCompleted, securityOwner, clock, sendSeq, edits, loadSeq

specVars == <<metadata, currentSpecKey, loadUrl, loadedFromPaste, metadataDraft>>

sourceVars == <<savedSources, selectedSourceKey, sourceDraftKey, sourceDraftType,
                sourceDraftValue, sourceDialogOpen>>

loadVars == <<isLoadingMetadata, loadAbortController, loads, settled, loadSeq>>

paramVars == <<pathParams, queryParams, headerParams>>

draftVars == <<selectedKey, pathParams, queryParams, headerParams, requestBody>>

contentTypeVars == <<requestContentTypeSelections, requestBodiesByContentType>>

historyVars == <<responseHistory, responseHistoryBySpec>>

headerVars == <<headerDraft, headerMappingDraft, globalHeaders, headerVariables,
                headerDialogOpen>>

serverVars == <<metadataServerVariables, activeServerKey, activeServerUrl>>

securityVars == <<globalSecurityValues, securityValues, securityOwner>>

sendVars == <<sends, lastCompleted, clock, sendSeq, documentCookie>>

vars == <<specVars, sourceVars, loadVars, draftVars, contentTypeVars, response,
          historyVars, headerVars, serverVars, securityVars, sendVars, toasts, edits>>

\* a trimmed string of the store that holds a URL, as its sequence of atoms,
\* or a specification text
Str(url, text) == [url |-> url, text |-> text]

EmptyStr == Str(<< >>, EmptyText)

PasteLoaded == Str(<<"Paste loaded">>, EmptyText)

\* a string read as specification text: a URL is a YAML scalar, not an object
TextOf(value) ==
    IF value.url # << >>
    THEN Text(value.url, "yaml", "string", "absent", "absent", "absent", "absent", "d1")
    ELSE value.text

EmptyResponse == [status |-> 0, body |-> << >>, error |-> ""]

ErrorResponse(message) == [status |-> 0, body |-> << >>, error |-> message]

NoController == 0

NoSend == [id |-> 0]

\* the state after construction, with nothing persisted and no environment
\* variable set
Init ==
    /\ metadata = Null
    /\ currentSpecKey = NoKey
    /\ loadUrl = EmptyStr
    /\ loadedFromPaste = FALSE
    /\ metadataDraft = EmptyStr
    /\ savedSources = EmptyMap
    /\ selectedSourceKey = ""
    /\ sourceDraftKey = ""
    /\ sourceDraftType = "url"
    /\ sourceDraftValue = EmptyStr
    /\ sourceDialogOpen = FALSE
    /\ isLoadingMetadata = FALSE
    /\ loadAbortController = NoController
    /\ selectedKey = NoKey
    /\ pathParams = EmptyMap
    /\ queryParams = EmptyMap
    /\ headerParams = EmptyMap
    /\ requestBody = << >>
    /\ requestContentTypeSelections = EmptyMap
    /\ requestBodiesByContentType = EmptyMap
    /\ response = EmptyResponse
    /\ responseHistory = << >>
    /\ responseHistoryBySpec = EmptyMap
    /\ headerDraft = EmptyMap
    /\ headerDialogOpen = FALSE
    /\ headerMappingDraft = << >>
    /\ globalHeaders = EmptyMap
    /\ headerVariables = EmptyMap
    /\ metadataServerVariables = EmptyMap
    /\ activeServerKey = << >>
    /\ activeServerUrl = << >>
    /\ globalSecurityValues = EmptyMap
    /\ securityValues = EmptyMap
    /\ loads = EmptyMap
    /\ sends = EmptyMap
    /\ toasts = {}
    /\ documentCookie = EmptyMap
    /\ settled = {}
    /\ lastCompleted = NoSend
    /\ securityOwner = EmptyMap
    /\ clock = 0
    /\ sendSeq = 0
    /\ edits = 0
    /\ loadSeq = 0

\* ------------------------------------------------------------------------
\* Getters of the store
\* ------------------------------------------------------------------------

selectedApi == selectedApiOf(metadata, selectedKey)

requestContentType ==
    requestContentTypeOf(selectedApi, selectedKey, requestContentTypeSelections)

requestContentTypeOptions == getRequestContentTypes(selectedApi)

\* the response getResponseSchema reads the schema from, for a status
pickedResponse(status) == pickResponseByStatus(operationResponses(selectedApi), status)

\* the getter requestSchema
requestSchema ==
    resolveSchema(componentSchemas(metadata),
                  getRequestSchema(componentSchemas(metadata), selectedApi), {}, 0)

\* the value setSelectedKey serialises into the body of the draft
requestBodyDefault ==
    buildDefaultFromSchema(componentSchemas(metadata),
                           getRequestSchema(componentSchemas(metadata), selectedApi), 0)

securitySchemes == securitySchemesOf(metadata)

\* the schemes named by the security requirements of an operation
requiredSchemes(api) ==
    IF api = Null THEN {}
    ELSE UNION {api.op.security[i] : i \in 1..Len(api.op.security)}

schemeKeys(schemes) == {schemes[i].key : i \in 1..Len(schemes)}

\* ------------------------------------------------------------------------
\* The request draft
\* ------------------------------------------------------------------------

getRequestBodyForContentType(api, key, bodies, contentType) ==
    IF key = NoKey \/ contentType = "" THEN << >>
    ELSE IF Has(bodies, key) /\ Has(bodies[key], contentType)
    THEN bodies[key][contentType]
    ELSE getRequestBodyDefault(api, contentType)

\* setSelectedKey against the document md
setSelectedKey(md, key) ==
    /\ selectedKey' = key
    /\ \E api \in {selectedApiOf(md, key)} :
         IF api = Null
         THEN UNCHANGED <<paramVars, requestBody, response>>
         ELSE /\ pathParams' = toParamDefaults(requestParameters(api), "path")
              /\ queryParams' = toParamDefaults(requestParameters(api), "query")
              /\ headerParams' = toParamDefaults(requestParameters(api), "header")
              /\ requestBody' =
                   IF Has(requestContentTypeSelections, key)
                      /\ requestContentTypeSelections[key] # ""
                   THEN getRequestBodyForContentType(api, key, requestBodiesByContentType,
                                                     requestContentTypeSelections[key])
                   ELSE getRequestBodyDefault(api,
                            pickRequestContentType(getRequestContentTypes(api)))
              /\ response' = EmptyResponse

\* ensureSelectedApi against the document md
ensureSelectedApi(md) ==
    \E list \in {apiList(md)} :
        IF \/ list = << >>
           \/ selectedKey # NoKey /\ \E i \in 1..Len(list) : list[i].key = selectedKey
        THEN UNCHANGED <<draftVars, response>>
        ELSE setSelectedKey(md, list[1].key)

updateMetadataServerVariables(md) ==
    metadataServerVariables' =
        buildMetadataServerVariableState(serversOf(md), metadataServerVariables)

firstServerUrl(info) ==
    IF info.resolvedUrl # << >> THEN info.resolvedUrl ELSE info.templateUrl

setFirstServerIfNeeded(md) ==
    IF activeServerUrl = << >> /\ serversOf(md) # << >>
    THEN \E info \in {getResolvedServerInfo(serversOf(md)[1])} :
            IF firstServerUrl(info) # << >>
            THEN /\ activeServerKey' = (IF info.templateUrl # << >> THEN info.templateUrl
                                        ELSE firstServerUrl(info))
                 /\ activeServerUrl' = firstServerUrl(info)
            ELSE UNCHANGED <<activeServerKey, activeServerUrl>>
    ELSE UNCHANGED <<activeServerKey, activeServerUrl>>

\* the values a user types into a parameter field or the body editor
ParamValues == {<< >>, <<"5">>, <<"a b">>}

BodyTexts == {<< >>, <<"{bad">>, <<"{name:'x',}">>}

paramNames(params, location) ==
    {params[i].name : i \in {j \in 1..Len(params) : params[j].in = location}}

SetSelectedKey(key) ==
    /\ edits' = edits + 1
    /\ setSelectedKey(metadata, key)
    /\ settled' = {}
    /\ UNCHANGED <<specVars, sourceVars, isLoadingMetadata, loadAbortController, loads,
                   loadSeq, contentTypeVars, historyVars, headerVars, serverVars,
                   securityVars, sendVars, toasts>>

SetPathParam(key, value) ==
    /\ edits' = edits + 1
    /\ pathParams' = Put(pathParams, key, value)
    /\ settled' = {}
    /\ UNCHANGED <<specVars, sourceVars, isLoadingMetadata, loadAbortController, loads,
                   loadSeq, selectedKey, queryParams, headerParams, requestBody,
                   contentTypeVars, response, historyVars, headerVars, serverVars,
                   securityVars, sendVars, toasts>>

SetQueryParam(key, value) ==
    /\ edits' = edits + 1
    /\ queryParams' = Put(queryParams, key, value)
    /\ settled' = {}
    /\ UNCHANGED <<specVars, sourceVars, isLoadingMetadata, loadAbortController, loads,
                   loadSeq, selectedKey, pathParams, headerParams, requestBody,
                   contentTypeVars, response, historyVars, headerVars, serverVars,
                   securityVars, sendVars, toasts>>

SetHeaderParam(key, value) ==
    /\ edits' = edits + 1
    /\ headerParams' = Put(headerParams, key, value)
    /\ settled' = {}
    /\ UNCHANGED <<specVars, sourceVars, isLoadingMetadata, loadAbortController, loads,
                   loadSeq, selectedKey, pathParams, queryParams, requestBody,
                   contentTypeVars, response, historyVars, headerVars, serverVars,
                   securityVars, sendVars, toasts>>

SetRequestBody(value) ==
    /\ edits' = edits + 1
    /\ requestBody' = value
    /\ settled' = {}
    /\ UNCHANGED <<specVars, sourceVars, isLoadingMetadata, loadAbortController, loads,
                   loadSeq, selectedKey, paramVars, contentTypeVars, response,
                   historyVars, headerVars, serverVars, securityVars, sendVars, toasts>>

SetRequestContentType(value) ==
    /\ edits' = edits + 1
    /\ selectedApi # Null
    /\ requestContentTypeSelections' =
           Put(requestContentTypeSelections, selectedApi.key, value)
    /\ requestBody' = getRequestBodyForContentType(selectedApi, selectedKey,
                                                   requestBodiesByContentType, value)
    /\ settled' = {}
    /\ UNCHANGED <<specVars, sourceVars, isLoadingMetadata, loadAbortController, loads,
                   loadSeq, selectedKey, paramVars, requestBodiesByContentType, response,
                   historyVars, headerVars, serverVars, securityVars, sendVars, toasts>>

SetRequestBodyForContentType(contentType, value) ==
    /\ edits' = edits + 1
    /\ selectedApi # Null
    /\ requestBodiesByContentType' =
           Put(requestBodiesByContentType, selectedApi.key,
               Put(IF Has(requestBodiesByContentType, selectedApi.key)
                   THEN requestBodiesByContentType[selectedApi.key] ELSE EmptyMap,
                   contentType, value))
    /\ requestBody' = IF requestContentType = contentType THEN value ELSE requestBody
    /\ settled' = {}
    /\ UNCHANGED <<specVars, sourceVars, isLoadingMetadata, loadAbortController, loads,
                   loadSeq, selectedKey, paramVars, requestContentTypeSelections, response,
                   historyVars, headerVars, serverVars, securityVars, sendVars, toasts>>

\* ------------------------------------------------------------------------
\* The response history
\* ------------------------------------------------------------------------

DefaultSpecKey == <<"default">>

historyOf(bySpec, specKey) == IF Has(bySpec, specKey) THEN bySpec[specKey] ELSE << >>

\* currentSpecKey || 'default'
historyKey(specKey) == IF specKey = NoKey THEN DefaultSpecKey ELSE specKey

\* the list without the slice: nothing is ever evicted
nextHistoryUnbounded(bySpec, specKey, entry) ==
    <<entry>> \o historyOf(bySpec, historyKey(specKey))

\* [entry, ...current].slice(0, MAX_RESPONSE_HISTORY)
nextHistory(bySpec, specKey, entry) ==
    Slice(<<entry>> \o historyOf(bySpec, historyKey(specKey)), MAX_RESPONSE_HISTORY)

\* a push that shows the entry but does not keep it
pushResponseHistoryLost(bySpec, specKey, entry) ==
    [bySpec |-> bySpec, history |-> historyOf(bySpec, historyKey(specKey))]

\* the new responseHistoryBySpec and responseHistory
pushResponseHistory(bySpec, specKey, entry) ==
    [bySpec |-> Put(bySpec, historyKey(specKey), nextHistory(bySpec, specKey, entry)),
     history |-> nextHistory(bySpec, specKey, entry)]

RequestUrl(path, query) == [path |-> path, query |-> query]

\* the entry built from the selected operation api and the draft as they are
\* when the outcome arrives
createResponseHistory(api, id, resp, body) ==
    [id |-> id,
     key |-> IF api = Null THEN NoKey ELSE api.key,
     method |-> IF api = Null THEN "" ELSE api.method,
     path |-> IF api = Null THEN << >> ELSE api.path,
     url |-> RequestUrl(IF api = Null \/ api.path = << >> THEN << >>
                        ELSE applyPathParams(api.path, pathParams),
                        buildQueryString(queryParams)),
     pathParams |-> pathParams,
     queryParams |-> queryParams,
     headerParams |-> headerParams,
     requestBody |-> body,
     response |-> resp]

\* the store as it is when sendRequest is called: the draft, the credentials
\* and the operation each per-operation credential was stored under
IssuedDraft(api) ==
    [key |-> api.key, method |-> api.method, path |-> api.path,
     pathParams |-> pathParams, queryParams |-> queryParams,
     headerParams |-> headerParams, specKey |-> currentSpecKey,
     globalHeaders |-> globalHeaders, headerVariables |-> headerVariables,
     schemes |-> securitySchemes, required |-> requiredSchemes(api),
     securityValues |-> securityValues,
     globalSecurityValues |-> globalSecurityValues,
     securityOwner |-> securityOwner]

\* the record of a completed send: the draft when it was issued, the entry
\* created, the response shown, and responseHistoryBySpec before and after
Completed(id, outcome, issued, entry, shown, before, after) ==
    [id |-> id, outcome |-> outcome, issued |-> issued, entry |-> entry,
     response |-> shown, before |-> before, after |-> after]

\* ------------------------------------------------------------------------
\* sendRequest
\* ------------------------------------------------------------------------

nonEmptyEntries(params) == [k \in {x \in DOMAIN params : params[x] # << >>} |-> params[k]]

\* buildSecurityPayload on the store as it is
securityPayload ==
    buildSecurityPayload(securitySchemes, securityValues, globalSecurityValues,
                         headerVariables)

\* the headers of the request before the body is encoded
requestHeadersOf(payload, contentType) ==
    withContentType(
        mergeSecurityHeaders(Spread(globalHeaders, nonEmptyEntries(headerParams)),
                             payload.headers),
        contentType)

\* a configuration that carries the body for every method
requestConfigKeepsBody(api, payload, contentType, data) ==
    [method |-> toLowerCase(api.method),
     url |-> RequestUrl(applyPathParams(api.path, pathParams),
                        buildQueryString(mergeSecurityQuery(queryParams,
                                                            payload.queryParams))),
     data |-> data,
     headers |-> IF /\ data.kind = "formData"
                    /\ Has(requestHeadersOf(payload, contentType), "Content-Type")
                    /\ requestHeadersOf(payload, contentType)["Content-Type"] # << >>
                 THEN Without(requestHeadersOf(payload, contentType), "Content-Type")
                 ELSE requestHeadersOf(payload, contentType),
     withCredentials |-> payload.useCookies]

\* the configuration handed to the transport
requestConfig(api, payload, contentType, data) ==
    [method |-> toLowerCase(api.method),
     url |-> RequestUrl(applyPathParams(api.path, pathParams),
                        buildQueryString(mergeSecurityQuery(queryParams,
                                                            payload.queryParams))),
     data |-> IF toLowerCase(api.method) \in {"get", "delete"} THEN NoData ELSE data,
     headers |-> IF /\ data.kind = "formData"
                    /\ Has(requestHeadersOf(payload, contentType), "Content-Type")
                    /\ requestHeadersOf(payload, contentType)["Content-Type"] # << >>
                 THEN Without(requestHeadersOf(payload, contentType), "Content-Type")
                 ELSE requestHeadersOf(payload, contentType),
     withCredentials |-> payload.useCookies]

InvalidJson == ErrorResponse("Invalid JSON")

\* a rejection of the body that hands the request to the transport all the same
rejectBodyAndSend(id, api, text) ==
    \E entry \in {createResponseHistory(api, clock + 1, InvalidJson, text)} :
    \E pushed \in {pushResponseHistory(responseHistoryBySpec, currentSpecKey, entry)} :
        /\ response' = InvalidJson
        /\ responseHistoryBySpec' = pushed.bySpec
        /\ responseHistory' = pushed.history
        /\ clock' = clock + 1
        /\ lastCompleted' = Completed(id, "BodyInvalid", IssuedDraft(api), entry,
                                      response', responseHistoryBySpec, pushed.bySpec)
        /\ sends' = Put(sends, id,
                        [config |-> requestConfig(api, securityPayload, "", NoData),
                         security |-> securityPayload,
                         requestBody |-> text,
                         issued |-> IssuedDraft(api)])

\* the body is rejected: the outcome is shown and recorded, nothing is sent
rejectBody(id, api, text) ==
    \E entry \in {createResponseHistory(api, clock + 1, InvalidJson, text)} :
    \E pushed \in {pushResponseHistory(responseHistoryBySpec, currentSpecKey, entry)} :
        /\ response' = InvalidJson
        /\ responseHistoryBySpec' = pushed.bySpec
        /\ responseHistory' = pushed.history
        /\ clock' = clock + 1
        /\ lastCompleted' = Completed(id, "BodyInvalid", IssuedDraft(api), entry,
                                      response', responseHistoryBySpec, pushed.bySpec)
        /\ UNCHANGED sends

SendRequest ==
    /\ \E api \in {selectedApi} :
         /\ api # Null
         /\ \E payload \in {securityPayload},
               contentType \in {requestContentTypeOf(api, selectedKey,
                                                     requestContentTypeSelections)},
               text \in {resolveHeaderTemplate(requestBody, headerVariables)} :
            \E data \in {encodeBody(text, contentType)} :
              /\ sendSeq' = sendSeq + 1
              /\ documentCookie' = Spread(documentCookie, payload.cookieJar)
              /\ IF ~data.ok
                 THEN rejectBody(sendSeq + 1, api, text)
                 ELSE /\ sends' = Put(sends, sendSeq + 1,
                                      [config |-> requestConfig(api, payload, contentType,
                                                                data.value),
                                       security |-> payload,
                                       requestBody |-> text,
                                       issued |-> IssuedDraft(api)])
                      /\ UNCHANGED <<response, historyVars, lastCompleted, clock>>
    /\ settled' = {}
    /\ UNCHANGED <<specVars, sourceVars, isLoadingMetadata, loadAbortController, loads,
                   loadSeq, draftVars, contentTypeVars, headerVars, serverVars,
                   securityVars, toasts, edits>>

\* ------------------------------------------------------------------------
\* The outcome of a request
\* ------------------------------------------------------------------------

\* a response of the server: status and parsed data (an object of strings)
Results == {[status |-> 200, data |-> [token |-> <<"abc">>]],
            [status |-> 204, data |-> EmptyMap]}

\* a rejection of the transport: an HTTP status outside 2xx, or no response
Rejections == {[status |-> 500, message |-> "Request failed with status code 500"],
               [status |-> 0, message |-> "Network Error"]}

RECURSIVE StringifyFields(_, _)
StringifyFields(data, keys) ==
    IF keys = {} THEN << >>
    ELSE <<"\"", CHOOSE x \in keys : TRUE, "\": \"">>
             \o data[CHOOSE x \in keys : TRUE] \o <<"\"">>
             \o StringifyFields(data, keys \ {CHOOSE x \in keys : TRUE})

\* JSON.stringify(data, null, 2)
Stringify(data) == <<"{">> \o StringifyFields(data, DOMAIN data) \o <<"}">>

getValueByPath(data, responsePath) ==
    IF Has(data, responsePath) THEN Success(data[responsePath]) ELSE Failure("undefined")

ruleApplies(rule, apiPath, data) ==
    /\ rule.path # << >> /\ rule.responsePath # "" /\ rule.variable # ""
    /\ rule.path = apiPath
    /\ getValueByPath(data, rule.responsePath).ok

RECURSIVE applyRules(_, _, _, _)
applyRules(acc, rules, apiPath, data) ==
    IF rules = << >> THEN acc
    ELSE applyRules(IF ruleApplies(Head(rules), apiPath, data)
                    THEN [variables |->
                              Put(acc.variables, Head(rules).variable,
                                  getValueByPath(data, Head(rules).responsePath).value),
                          updated |-> TRUE]
                    ELSE acc,
                    Tail(rules), apiPath, data)

buildHeadersFromDraft(headers, variables) ==
    [k \in {x \in DOMAIN headers : x # ""} |-> resolveHeaderTemplate(headers[k], variables)]

applyHeaderMappings(data) ==
    \E api \in {selectedApi} :
        IF api = Null \/ headerMappingDraft = << >>
        THEN UNCHANGED <<headerVariables, globalHeaders>>
        ELSE \E next \in {applyRules([variables |-> headerVariables, updated |-> FALSE],
                                     headerMappingDraft, api.path, data)} :
                IF next.updated
                THEN /\ headerVariables' = next.variables
                     /\ globalHeaders' = buildHeadersFromDraft(headerDraft, next.variables)
                ELSE UNCHANGED <<headerVariables, globalHeaders>>

Toast(message, severity) == [message |-> message, severity |-> severity]

\* the outcome resp of send id is shown and recorded
recordOutcome(id, outcome, resp) ==
    \E entry \in {createResponseHistory(selectedApi, clock + 1, resp,
                                        sends[id].requestBody)} :
    \E pushed \in {pushResponseHistory(responseHistoryBySpec, currentSpecKey, entry)} :
        /\ response' = resp
        /\ responseHistoryBySpec' = pushed.bySpec
        /\ responseHistory' = pushed.history
        /\ clock' = clock + 1
        /\ sends' = Without(sends, id)
        /\ lastCompleted' = Completed(id, outcome, sends[id].issued, entry,
                                      response', responseHistoryBySpec, pushed.bySpec)

TransportSuccess(id, result) ==
    /\ id \in DOMAIN sends
    /\ applyHeaderMappings(result.data)
    /\ recordOutcome(id, "success",
                     [status |-> result.status, body |-> Stringify(result.data),
                      error |-> ""])
    /\ settled' = {}
    /\ UNCHANGED <<specVars, sourceVars, isLoadingMetadata, loadAbortController, loads,
                   loadSeq, draftVars, contentTypeVars, headerDraft, headerMappingDraft,
                   headerDialogOpen,
                   serverVars, securityVars, documentCookie, sendSeq, toasts, edits>>

TransportFail(id, rejection) ==
    /\ id \in DOMAIN sends
    /\ toasts' = toasts \cup
           {Toast(IF rejection.status # 0 THEN "Request failed (status)"
                  ELSE rejection.message, "error")}
    /\ recordOutcome(id, "TransportError", ErrorResponse(rejection.message))
    /\ settled' = {}
    /\ UNCHANGED <<specVars, sourceVars, isLoadingMetadata, loadAbortController, loads,
                   loadSeq, draftVars, contentTypeVars, headerVars, serverVars,
                   securityVars, documentCookie, sendSeq, edits>>

\* ------------------------------------------------------------------------
\* Loading a specification from text
\* ------------------------------------------------------------------------

PasteKey(raw) == <<"paste", hashText(raw)>>

\* what a load leaves alone when it fails
keepDocument ==
    UNCHANGED <<metadata, loadedFromPaste, currentSpecKey, responseHistory, loadUrl,
                serverVars, draftVars, response>>

\* the assignments of a successful loadMetadataFromText
installText(raw) ==
    \E md \in {[spec |-> parseMetadataText(raw).value]} :
        /\ metadata' = md
        /\ loadedFromPaste' = TRUE
        /\ currentSpecKey' = PasteKey(raw)
        /\ responseHistory' = historyOf(responseHistoryBySpec, PasteKey(raw))
        /\ loadUrl' = PasteLoaded
        /\ updateMetadataServerVariables(md)
        /\ setFirstServerIfNeeded(md)
        /\ ensureSelectedApi(md)
        /\ UNCHANGED toasts

loadMetadataFromText(raw) ==
    IF raw = EmptyText
    THEN /\ toasts' = toasts \cup {Toast("Metadata text is required.", "error")}
         /\ keepDocument
    ELSE IF parseMetadataText(raw).ok
    THEN installText(raw)
    ELSE /\ toasts' = toasts \cup {Toast(parseMetadataText(raw).error, "error")}
         /\ keepDocument

\* the settle event of a load: how it ended, whether a newer load started
\* while its fetch was in flight, which parts of the store its own start
\* changed, what it showed, and the document before it settled
Settled(id, kind, outcome, superseded, changed, shown, errorResponse, before) ==
    [id |-> id, kind |-> kind, outcome |-> outcome, superseded |-> superseded,
     changed |-> changed, toasts |-> shown, errorResponse |-> errorResponse,
     before |-> before]

LoadMetadataFromText(raw) ==
    /\ loadMetadataFromText(raw)
    /\ loadSeq' = loadSeq + 1
    /\ settled' = {Settled(loadSeq + 1, "loadMetadataFromText",
                           IF raw # EmptyText /\ parseMetadataText(raw).ok
                           THEN "applied" ELSE "failed",
                           FALSE, {}, toasts' \ toasts, FALSE, metadata)}
    /\ UNCHANGED <<metadataDraft, sourceVars, isLoadingMetadata, loadAbortController,
                   loads, contentTypeVars, responseHistoryBySpec, headerVars,
                   securityVars, sendVars, edits>>

\* ------------------------------------------------------------------------
\* Loading a specification from a URL or from a saved source
\* ------------------------------------------------------------------------

Url(atoms) == Str(atoms, EmptyText)

PastedText(raw) == Str(<< >>, raw)

UrlA == <<"https://", "a.test", "/openapi.json">>

UrlB == <<"https://", "b.test", "/spec", "/">>

UrlBroken == <<"https://", "c.test", "/broken">>

\* url.replace(/\/+$/, '')
RECURSIVE stripTrailingSlashes(_)
stripTrailingSlashes(url) ==
    IF url # << >> /\ url[Len(url)] = "/"
    THEN stripTrailingSlashes(SubSeq(url, 1, Len(url) - 1))
    ELSE url

\* the texts the network serves; every other address answers with an error
ServedUrls == {UrlA, stripTrailingSlashes(UrlB), UrlBroken}

Served(url) ==
    CASE url = UrlA -> TextD1
      [] url = stripTrailingSlashes(UrlB) -> TextD2
      [] OTHER -> TextNoPaths

FetchErrors == {"Network Error", "Failed to fetch metadata (404)"}

\* the checks of getSwaggerMetadata before the request leaves: the address
\* to fetch, or the error thrown
checkUrl(value) ==
    IF value = EmptyStr \/ (value.text = EmptyText /\ stripTrailingSlashes(value.url) = << >>)
    THEN Failure("Load URL is required.")
    ELSE IF \/ stripTrailingSlashes(value.url) = << >>
            \/ stripTrailingSlashes(value.url)[1] \notin {"http://", "https://"}
    THEN Failure("URL must start with http:// or https://")
    ELSE IF Len(stripTrailingSlashes(value.url)) < 2
    THEN Failure("Invalid URL")
    ELSE Success(stripTrailingSlashes(value.url))

\* a load between its steps: awaiting its fetch, or validated by
\* addSavedSource and waiting for the timer that applies it
Load(kind, pc, url, key, value, parsed, changed) ==
    [kind |-> kind, pc |-> pc, url |-> url, key |-> key, value |-> value,
     parsed |-> parsed, superseded |-> FALSE, changed |-> changed]

\* the parts of the store a cancelled load is expected to leave alone
Snapshot ==
    [metadata |-> metadata, currentSpecKey |-> currentSpecKey,
     responseHistory |-> responseHistory, draft |-> draftVars]

\* the parts of the store the current step changes
ChangedByStep == {f \in DOMAIN Snapshot : Snapshot[f] # Snapshot'[f]}

\* the loads left when the controller is aborted; a load still awaiting its
\* fetch has now seen a newer load start
remainingLoads ==
    [id \in DOMAIN loads \ {loadAbortController} |->
        [loads[id] EXCEPT !.superseded = (@ \/ loads[id].pc = "fetching")]]

\* abort() rejects the pending fetch with 'canceled'; the catch of the aborted
\* load returns without a toast and without an error response
abortEvents(shown) ==
    {Settled(id, loads[id].kind, "cancelled", TRUE, loads[id].changed, shown, FALSE,
             metadata) : id \in DOMAIN loads \cap {loadAbortController}}

\* a load that passes its checks and awaits its fetch. The finally of an
\* aborted predecessor runs after the new controller is stored and the flag
\* raised, and clears both.
beginFetch(kind, url, key, value) ==
    /\ loads' = Put(remainingLoads, loadSeq + 1,
                    Load(kind, "fetching", url, key, value, EmptyText, ChangedByStep))
    /\ loadSeq' = loadSeq + 1
    /\ isLoadingMetadata' = (loadAbortController = NoController)
    /\ loadAbortController' =
         IF loadAbortController = NoController THEN loadSeq + 1 ELSE NoController
    /\ settled' = abortEvents({})

\* a load that settles in the step that starts it
endAtOnce(kind, outcome, errorResponse) ==
    /\ loads' = remainingLoads
    /\ loadSeq' = loadSeq + 1
    /\ isLoadingMetadata' = FALSE
    /\ loadAbortController' = NoController
    /\ settled' = abortEvents({}) \cup
                  {Settled(loadSeq + 1, kind, outcome, FALSE, ChangedByStep,
                           toasts' \ toasts, errorResponse, metadata)}

\* the finally of a load whose fetch has answered
endFetch(id, outcome, errorResponse) ==
    /\ loads' = Without(loads, id)
    /\ isLoadingMetadata' = FALSE
    /\ loadAbortController' = NoController
    /\ settled' = {Settled(id, loads[id].kind, outcome, loads[id].superseded,
                           loads[id].changed, toasts' \ toasts, errorResponse, metadata)}
    /\ UNCHANGED loadSeq

\* what no load writes
untouchedByLoads ==
    <<contentTypeVars, responseHistoryBySpec, headerVars, securityVars, sendVars>>

SetSourceDraftKey(value) ==
    /\ sourceDraftKey' = value
    /\ edits' = edits + 1
    /\ settled' = {}
    /\ UNCHANGED <<specVars, savedSources, selectedSourceKey, sourceDraftType,
                   sourceDraftValue, sourceDialogOpen, isLoadingMetadata,
                   loadAbortController, loads, loadSeq, draftVars, response,
                   responseHistory, serverVars, toasts, untouchedByLoads>>

SetSourceDraftType(value) ==
    /\ sourceDraftType' = value
    /\ edits' = edits + 1
    /\ settled' = {}
    /\ UNCHANGED <<specVars, savedSources, selectedSourceKey, sourceDraftKey,
                   sourceDraftValue, sourceDialogOpen, isLoadingMetadata,
                   loadAbortController, loads, loadSeq, draftVars, response,
                   responseHistory, serverVars, toasts, untouchedByLoads>>

SetSourceDraftValue(value) ==
    /\ sourceDraftValue' = value
    /\ edits' = edits + 1
    /\ settled' = {}
    /\ UNCHANGED <<specVars, savedSources, selectedSourceKey, sourceDraftKey,
                   sourceDraftType, sourceDialogOpen, isLoadingMetadata,
                   loadAbortController, loads, loadSeq, draftVars, response,
                   responseHistory, serverVars, toasts, untouchedByLoads>>

SetLoadUrl(value) ==
    /\ loadUrl' = value
    /\ edits' = edits + 1
    /\ settled' = {}
    /\ UNCHANGED <<metadata, currentSpecKey, loadedFromPaste, metadataDraft, sourceVars,
                   isLoadingMetadata, loadAbortController, loads, loadSeq, draftVars,
                   response, responseHistory, serverVars, toasts, untouchedByLoads>>

SetMetadataDraft(value) ==
    /\ metadataDraft' = value
    /\ edits' = edits + 1
    /\ settled' = {}
    /\ UNCHANGED <<metadata, currentSpecKey, loadedFromPaste, loadUrl, sourceVars,
                   isLoadingMetadata, loadAbortController, loads, loadSeq, draftVars,
                   response, responseHistory, serverVars, toasts, untouchedByLoads>>

\* loadMetadataFromPaste inside loadMetadata: parse the draft and install it
loadMetadataFromPaste(kind) ==
    \E raw \in {TextOf(metadataDraft)} :
        IF parseMetadataText(raw).ok
        THEN \E md \in {[spec |-> parseMetadataText(raw).value]} :
                /\ metadata' = md
                /\ loadedFromPaste' = TRUE
                /\ currentSpecKey' = PasteKey(raw)
                /\ responseHistory' = historyOf(responseHistoryBySpec, PasteKey(raw))
                /\ loadUrl' = PasteLoaded
                /\ updateMetadataServerVariables(md)
                /\ setFirstServerIfNeeded(md)
                /\ UNCHANGED <<metadataDraft, draftVars, response, toasts>>
                /\ endAtOnce(kind, "applied", FALSE)
        ELSE /\ response' = ErrorResponse(parseMetadataText(raw).error)
             /\ UNCHANGED <<specVars, responseHistory, serverVars, draftVars, toasts>>
             /\ endAtOnce(kind, "failed", TRUE)

\* the URL branch of loadMetadata up to the await of the fetch; the caller
\* has written loadUrl, currentSpecKey and responseHistory
loadMetadataFromUrl(kind, url) ==
    /\ UNCHANGED <<metadata, serverVars, draftVars, toasts>>
    /\ IF checkUrl(url).ok
       THEN /\ beginFetch(kind, checkUrl(url).value, "", url)
            /\ UNCHANGED response
       ELSE /\ response' = ErrorResponse(checkUrl(url).error)
            /\ endAtOnce(kind, "failed", TRUE)

LoadMetadata ==
    /\ IF loadUrl = EmptyStr /\ (~loadedFromPaste \/ metadataDraft = EmptyStr)
       THEN /\ isLoadingMetadata' = FALSE
            /\ settled' = {}
            /\ UNCHANGED <<specVars, loadAbortController, loads, loadSeq, serverVars,
                           draftVars, response, responseHistory, toasts>>
       ELSE IF loadedFromPaste /\ metadataDraft # EmptyStr
       THEN loadMetadataFromPaste("loadMetadata")
       ELSE /\ UNCHANGED <<currentSpecKey, loadUrl, loadedFromPaste, metadataDraft,
                           responseHistory>>
            /\ loadMetadataFromUrl("loadMetadata", loadUrl)
    /\ UNCHANGED <<sourceVars, untouchedByLoads, edits>>

\* the fetch of load id answers with the served text
loadMetadataFetched(id, raw) ==
    IF parseMetadataText(raw).ok
    THEN \E md \in {[spec |-> parseMetadataText(raw).value]} :
            /\ metadata' = md
            /\ loadedFromPaste' = FALSE
            /\ currentSpecKey' = <<"url", loadUrl>>
            /\ responseHistory' = historyOf(responseHistoryBySpec, <<"url", loadUrl>>)
            /\ updateMetadataServerVariables(md)
            /\ setFirstServerIfNeeded(md)
            /\ UNCHANGED <<loadUrl, metadataDraft, draftVars, response, toasts, sourceVars>>
            /\ endFetch(id, "applied", FALSE)
    ELSE /\ response' = ErrorResponse(parseMetadataText(raw).error)
         /\ UNCHANGED <<specVars, responseHistory, serverVars, draftVars, toasts, sourceVars>>
         /\ endFetch(id, "failed", TRUE)

\* addSavedSource after its fetch: close the dialog and leave the rest to a
\* timer; the finally runs before the timer
addSavedSourceFetched(id, raw) ==
    /\ UNCHANGED <<specVars, responseHistory, serverVars, draftVars, response,
                   savedSources, selectedSourceKey, sourceDraftKey, sourceDraftType,
                   sourceDraftValue>>
    /\ IF parseMetadataText(raw).ok
       THEN /\ sourceDialogOpen' = FALSE
            /\ loads' = Put(loads, id, [loads[id] EXCEPT !.pc = "timer", !.parsed = raw])
            /\ isLoadingMetadata' = FALSE
            /\ loadAbortController' = NoController
            /\ settled' = {}
            /\ UNCHANGED <<toasts, loadSeq>>
       ELSE /\ toasts' = toasts \cup {Toast(parseMetadataText(raw).error, "error")}
            /\ UNCHANGED sourceDialogOpen
            /\ endFetch(id, "failed", FALSE)

testConnectFetched(id, raw) ==
    /\ UNCHANGED <<specVars, responseHistory, serverVars, draftVars, response, sourceVars>>
    /\ IF parseMetadataText(raw).ok
       THEN /\ toasts' = toasts \cup {Toast("Connected successfully!", "success")}
            /\ endFetch(id, "validated", FALSE)
       ELSE /\ toasts' = toasts \cup {Toast(parseMetadataText(raw).error, "error")}
            /\ endFetch(id, "failed", FALSE)

FetchSuccess(id) ==
    /\ loads[id].pc = "fetching"
    /\ loads[id].url \in ServedUrls
    /\ CASE loads[id].kind = "addSavedSource" -> addSavedSourceFetched(id, Served(loads[id].url))
         [] loads[id].kind = "testConnect" -> testConnectFetched(id, Served(loads[id].url))
         [] OTHER -> loadMetadataFetched(id, Served(loads[id].url))
    /\ UNCHANGED <<untouchedByLoads, edits>>

\* the fetch of load id is rejected by the network or answered with an error
\* status
FetchFail(id, message) ==
    /\ loads[id].pc = "fetching"
    /\ IF loads[id].kind \in {"addSavedSource", "testConnect"}
       THEN /\ toasts' = toasts \cup {Toast(message, "error")}
            /\ UNCHANGED response
            /\ endFetch(id, "failed", FALSE)
       ELSE /\ response' = ErrorResponse(message)
            /\ UNCHANGED toasts
            /\ endFetch(id, "failed", TRUE)
    /\ UNCHANGED <<specVars, responseHistory, serverVars, draftVars, sourceVars,
                   untouchedByLoads, edits>>

CancelLoadMetadata ==
    /\ loadAbortController # NoController
    /\ toasts' = toasts \cup {Toast("Metadata loading cancelled.", "info")}
    /\ loads' = Without(loads, loadAbortController)
    /\ loadAbortController' = NoController
    /\ isLoadingMetadata' = FALSE
    /\ settled' = {Settled(id, loads[id].kind, "cancelled", loads[id].superseded,
                           loads[id].changed, toasts' \ toasts, FALSE, metadata) :
                       id \in DOMAIN loads \cap {loadAbortController}}
    /\ UNCHANGED <<specVars, responseHistory, serverVars, draftVars, response, sourceVars,
                   loadSeq, untouchedByLoads, edits>>

\* a toast and nothing else: the early returns of addSavedSource and
\* testConnect
onlyToast(message) ==
    /\ toasts' = toasts \cup {Toast(message, "error")}
    /\ settled' = {}
    /\ UNCHANGED <<sourceDialogOpen, isLoadingMetadata, loadAbortController, loads,
                   loadSeq>>

\* addSavedSource up to its first await, or through its validation when the
\* draft holds a text
AddSavedSource ==
    /\ UNCHANGED <<specVars, responseHistory, serverVars, draftVars, response,
                   savedSources, selectedSourceKey, sourceDraftKey, sourceDraftType,
                   sourceDraftValue, untouchedByLoads, edits>>
    /\ IF sourceDraftKey = ""
       THEN onlyToast("Source key is required.")
       ELSE IF sourceDraftValue = EmptyStr
       THEN onlyToast("Source value is required.")
       ELSE IF sourceDraftType = "url"
       THEN IF checkUrl(sourceDraftValue).ok
            THEN /\ beginFetch("addSavedSource", checkUrl(sourceDraftValue).value,
                               sourceDraftKey, sourceDraftValue)
                 /\ UNCHANGED <<toasts, sourceDialogOpen>>
            ELSE /\ toasts' = toasts \cup {Toast(checkUrl(sourceDraftValue).error, "error")}
                 /\ UNCHANGED sourceDialogOpen
                 /\ endAtOnce("addSavedSource", "failed", FALSE)
       ELSE IF parseMetadataText(TextOf(sourceDraftValue)).ok
       THEN /\ sourceDialogOpen' = FALSE
            /\ loads' = Put(remainingLoads, loadSeq + 1,
                            Load("addSavedSource", "timer", << >>, sourceDraftKey,
                                 sourceDraftValue, TextOf(sourceDraftValue), {}))
            /\ loadSeq' = loadSeq + 1
            /\ isLoadingMetadata' = FALSE
            /\ loadAbortController' = NoController
            /\ settled' = abortEvents({})
            /\ UNCHANGED toasts
       ELSE /\ toasts' = toasts \cup
                         {Toast(parseMetadataText(TextOf(sourceDraftValue)).error, "error")}
            /\ UNCHANGED sourceDialogOpen
            /\ endAtOnce("addSavedSource", "failed", FALSE)

\* the timer of addSavedSource: save the source and apply the document it
\* validated; the type is the draft's type when the timer runs
AddSourceTimer(id) ==
    /\ loads[id].pc = "timer"
    /\ \E md \in {[spec |-> parseMetadataText(loads[id].parsed).value]},
          key \in {loads[id].key}, value \in {loads[id].value} :
         /\ savedSources' = Put(savedSources, key, [type |-> sourceDraftType, value |-> value])
         /\ metadata' = md
         /\ selectedSourceKey' = key
         /\ currentSpecKey' = <<"source", key>>
         /\ responseHistory' = historyOf(responseHistoryBySpec, <<"source", key>>)
         /\ IF sourceDraftType = "url"
            THEN /\ loadedFromPaste' = FALSE
                 /\ loadUrl' = value
                 /\ UNCHANGED metadataDraft
            ELSE /\ metadataDraft' = value
                 /\ loadedFromPaste' = TRUE
                 /\ loadUrl' = PasteLoaded
         /\ updateMetadataServerVariables(md)
         /\ setFirstServerIfNeeded(md)
         /\ ensureSelectedApi(md)
    /\ toasts' = toasts \cup {Toast("Source added successfully.", "success")}
    /\ loads' = Without(loads, id)
    /\ settled' = {Settled(id, "addSavedSource", "applied", loads[id].superseded,
                           loads[id].changed, toasts' \ toasts, FALSE, metadata)}
    /\ UNCHANGED <<sourceDraftKey, sourceDraftType, sourceDraftValue, sourceDialogOpen,
                   isLoadingMetadata, loadAbortController, loadSeq, untouchedByLoads,
                   edits>>

TestConnect ==
    /\ UNCHANGED <<specVars, responseHistory, serverVars, draftVars, response,
                   savedSources, selectedSourceKey, sourceDraftKey, sourceDraftType,
                   sourceDraftValue, untouchedByLoads, edits>>
    /\ IF sourceDraftValue = EmptyStr
       THEN onlyToast("Source value is required to test.")
       ELSE IF sourceDraftType = "url"
       THEN IF checkUrl(sourceDraftValue).ok
            THEN /\ beginFetch("testConnect", checkUrl(sourceDraftValue).value, "",
                               sourceDraftValue)
                 /\ UNCHANGED <<toasts, sourceDialogOpen>>
            ELSE /\ toasts' = toasts \cup {Toast(checkUrl(sourceDraftValue).error, "error")}
                 /\ UNCHANGED sourceDialogOpen
                 /\ endAtOnce("testConnect", "failed", FALSE)
       ELSE IF parseMetadataText(TextOf(sourceDraftValue)).ok
       THEN /\ toasts' = toasts \cup {Toast("Connected successfully!", "success")}
            /\ UNCHANGED sourceDialogOpen
            /\ endAtOnce("testConnect", "validated", FALSE)
       ELSE /\ toasts' = toasts \cup
                         {Toast(parseMetadataText(TextOf(sourceDraftValue)).error, "error")}
            /\ UNCHANGED sourceDialogOpen
            /\ endAtOnce("testConnect", "failed", FALSE)

\* loadSavedSource of a saved key: the source is selected and the history
\* switched before the load begins
LoadSavedSource(key) ==
    /\ Has(savedSources, key)
    /\ selectedSourceKey' = key
    /\ \E entry \in {savedSources[key]} :
         IF entry.type = "url"
         THEN /\ currentSpecKey' = <<"source", key>>
              /\ responseHistory' = historyOf(responseHistoryBySpec, <<"source", key>>)
              /\ loadedFromPaste' = FALSE
              /\ loadUrl' = entry.value
              /\ UNCHANGED metadataDraft
              /\ loadMetadataFromUrl("loadSavedSource", entry.value)
         ELSE /\ metadataDraft' = entry.value
              /\ IF parseMetadataText(TextOf(entry.value)).ok
                 THEN installText(TextOf(entry.value))
                 ELSE /\ toasts' = toasts \cup
                            {Toast(parseMetadataText(TextOf(entry.value)).error, "error")}
                      /\ currentSpecKey' = <<"source", key>>
                      /\ responseHistory' =
                           historyOf(responseHistoryBySpec, <<"source", key>>)
                      /\ loadedFromPaste' = TRUE
                      /\ UNCHANGED <<metadata, loadUrl, serverVars, draftVars, response>>
              /\ loadSeq' = loadSeq + 1
              /\ settled' = {Settled(loadSeq + 1, "loadSavedSource",
                                     IF parseMetadataText(TextOf(entry.value)).ok
                                     THEN "applied" ELSE "failed",
                                     FALSE, ChangedByStep, toasts' \ toasts, FALSE,
                                     metadata)}
              /\ UNCHANGED <<isLoadingMetadata, loadAbortController, loads>>
    /\ UNCHANGED <<savedSources, sourceDraftKey, sourceDraftType, sourceDraftValue,
                   sourceDialogOpen, untouchedByLoads, edits>>

\* ------------------------------------------------------------------------
\* Global headers and mapping rules
\* ------------------------------------------------------------------------

\* what the header dialog and the mapping rules leave alone
untouchedByHeaders ==
    <<specVars, sourceVars, isLoadingMetadata, loadAbortController, loads, loadSeq,
      draftVars, contentTypeVars, response, historyVars, serverVars, securityVars,
      sendVars, toasts>>

SetHeaderDraft(value) ==
    /\ headerDraft' = value
    /\ edits' = edits + 1
    /\ settled' = {}
    /\ UNCHANGED <<headerMappingDraft, globalHeaders, headerVariables, headerDialogOpen,
                   untouchedByHeaders>>

SetHeaderMappingDraft(value) ==
    /\ headerMappingDraft' = value
    /\ edits' = edits + 1
    /\ settled' = {}
    /\ UNCHANGED <<headerDraft, globalHeaders, headerVariables, headerDialogOpen,
                   untouchedByHeaders>>

SaveHeader ==
    /\ globalHeaders' = buildHeadersFromDraft(headerDraft, headerVariables)
    /\ headerDialogOpen' = FALSE
    /\ edits' = edits + 1
    /\ settled' = {}
    /\ UNCHANGED <<headerDraft, headerMappingDraft, headerVariables, untouchedByHeaders>>

\* ------------------------------------------------------------------------
\* Server variables
\* ------------------------------------------------------------------------

SetMetadataServerVariable(key, values) ==
    /\ edits' = edits + 1
    /\ IF key = << >>
       THEN UNCHANGED serverVars
       ELSE /\ metadataServerVariables' = Put(metadataServerVariables, key, values)
            /\ activeServerUrl' =
                   IF activeServerKey = key /\ resolveServerUrlWithValues(key, values) # << >>
                   THEN resolveServerUrlWithValues(key, values)
                   ELSE activeServerUrl
            /\ UNCHANGED activeServerKey
    /\ settled' = {}
    /\ UNCHANGED <<specVars, sourceVars, isLoadingMetadata, loadAbortController, loads,
                   loadSeq, draftVars, contentTypeVars, response, historyVars, headerVars,
                   securityVars, sendVars, toasts>>

\* removeSavedSource: the source and its history are deleted; when the
\* source is the loaded one the document, the draft and the servers are
\* reset as well
RemoveSavedSource(key) ==
    /\ edits' = edits + 1
    /\ settled' = {}
    /\ IF key = ""
       THEN UNCHANGED <<specVars, savedSources, selectedSourceKey, draftVars,
                        contentTypeVars, response, historyVars, serverVars>>
       ELSE /\ savedSources' = Without(savedSources, key)
            /\ responseHistoryBySpec' = Without(responseHistoryBySpec, <<"source", key>>)
            /\ selectedSourceKey' = IF selectedSourceKey = key THEN "" ELSE selectedSourceKey
            /\ IF currentSpecKey = <<"source", key>>
               THEN /\ currentSpecKey' = NoKey
                    /\ responseHistory' = << >>
                    /\ metadata' = Null
                    /\ selectedKey' = NoKey
                    /\ pathParams' = EmptyMap
                    /\ queryParams' = EmptyMap
                    /\ headerParams' = EmptyMap
                    /\ requestBody' = << >>
                    /\ requestContentTypeSelections' = EmptyMap
                    /\ requestBodiesByContentType' = EmptyMap
                    /\ response' = EmptyResponse
                    /\ metadataServerVariables' = EmptyMap
                    /\ activeServerKey' = << >>
                    /\ activeServerUrl' = << >>
                    /\ loadUrl' = EmptyStr
                    /\ loadedFromPaste' = FALSE
                    /\ metadataDraft' = EmptyStr
               ELSE UNCHANGED <<specVars, draftVars, contentTypeVars, response,
                                responseHistory, serverVars>>
    /\ UNCHANGED <<sourceDraftKey, sourceDraftType, sourceDraftValue, sourceDialogOpen,
                   isLoadingMetadata, loadAbortController, loads, loadSeq, headerVars,
                   securityVars, sendVars, toasts>>

\* ------------------------------------------------------------------------
\* Credentials
\* ------------------------------------------------------------------------

SetSecurityValue(name, value) ==
    /\ edits' = edits + 1
    /\ name # ""
    /\ securityValues' = Put(securityValues, name, value)
    /\ securityOwner' = Put(securityOwner, name, selectedKey)
    /\ settled' = {}
    /\ UNCHANGED <<specVars, sourceVars, isLoadingMetadata, loadAbortController, loads,
                   loadSeq, draftVars, contentTypeVars, response, historyVars, headerVars,
                   serverVars, globalSecurityValues, sendVars, toasts>>

SetGlobalSecurityValue(name, value) ==
    /\ edits' = edits + 1
    /\ name # ""
    /\ globalSecurityValues' = Put(globalSecurityValues, name, value)
    /\ settled' = {}
    /\ UNCHANGED <<specVars, sourceVars, isLoadingMetadata, loadAbortController, loads,
                   loadSeq, draftVars, contentTypeVars, response, historyVars, headerVars,
                   serverVars, securityValues, securityOwner, sendVars, toasts>>

\* ------------------------------------------------------------------------
\* Sending: load a document from text, edit the draft, send, receive
\* ------------------------------------------------------------------------

ValidTexts == {TextD1, TextD2}

apiKeys(list) == {list[i].key : i \in 1..Len(list)}

Transport ==
    \/ \E id \in DOMAIN sends, result \in Results : TransportSuccess(id, result)
    \/ \E id \in DOMAIN sends, rejection \in Rejections : TransportFail(id, rejection)

NextSend ==
    \/ \E raw \in ValidTexts : loadSeq < MaxSwitches /\ LoadMetadataFromText(raw)
    \/ \E key \in apiKeys(apiList(metadata)) : edits < MaxEdits /\ SetSelectedKey(key)
    \/ \E key \in paramNames(requestParameters(selectedApi), "path"),
          value \in ParamValues : edits < MaxEdits /\ SetPathParam(key, value)
    \/ \E key \in paramNames(requestParameters(selectedApi), "query"),
          value \in ParamValues : edits < MaxEdits /\ SetQueryParam(key, value)
    \/ \E key \in paramNames(requestParameters(selectedApi), "header"),
          value \in ParamValues : edits < MaxEdits /\ SetHeaderParam(key, value)
    \/ \E value \in BodyTexts : edits < MaxEdits /\ SetRequestBody(value)
    \/ sendSeq < MaxSends /\ SendRequest
    \/ Transport

SpecSend == Init /\ [][NextSend]_vars

Result204 == [status |-> 204, data |-> EmptyMap]

\* the transport answers the requests it holds, with a response or a rejection
Answer ==
    \/ \E id \in DOMAIN sends : TransportSuccess(id, Result204)
    \/ \E id \in DOMAIN sends, rejection \in Rejections : TransportFail(id, rejection)

\* sends of one document whose body the user edits
NextRecord ==
    \/ loadSeq < MaxRecordLoads /\ LoadMetadataFromText(TextD1)
    \/ \E key \in apiKeys(apiList(metadata)) : edits < MaxEdits /\ SetSelectedKey(key)
    \/ \E value \in BodyTexts : edits < MaxEdits /\ SetRequestBody(value)
    \/ sendSeq < MaxSends /\ SendRequest
    \/ Answer

FairSpecRecord == Init /\ [][NextRecord]_vars /\ WF_vars(Answer)

\* ------------------------------------------------------------------------
\* A long run of sends over specification switches
\* ------------------------------------------------------------------------

NextHistory ==
    \/ \E raw \in ValidTexts : loadSeq < MaxSwitches + 1 /\ LoadMetadataFromText(raw)
    \/ /\ sendSeq < MaxHistorySends
       /\ Cardinality(DOMAIN sends) < MaxInFlight
       /\ SendRequest
    \/ \E id \in DOMAIN sends : TransportSuccess(id, Result204)

SpecHistory == Init /\ [][NextHistory]_vars

\* ------------------------------------------------------------------------
\* Loading: URL loads, saved sources, cancellation, overlapping loads
\* ------------------------------------------------------------------------

SourceKeys == {"k1"}

SourceValues == {Url(UrlB), PastedText(TextD2)}

LoadUrls == {Url(UrlA), Url(UrlBroken)}

NextLoad ==
    \/ \E key \in SourceKeys : edits < MaxSourceEdits /\ SetSourceDraftKey(key)
    \/ \E type \in {"url", "text"} : edits < MaxSourceEdits /\ SetSourceDraftType(type)
    \/ \E value \in SourceValues : edits < MaxSourceEdits /\ SetSourceDraftValue(value)
    \/ \E value \in LoadUrls : edits < MaxSourceEdits /\ SetLoadUrl(value)
    \/ edits < MaxSourceEdits /\ SetMetadataDraft(PastedText(TextD1))
    \/ loadSeq < MaxLoads /\ LoadMetadata
    \/ loadSeq < MaxLoads /\ AddSavedSource
    \/ loadSeq < MaxLoads /\ TestConnect
    \/ \E key \in SourceKeys : loadSeq < MaxLoads /\ LoadSavedSource(key)
    \/ \E raw \in {TextD1, TextGarbage} : loadSeq < MaxLoads /\ LoadMetadataFromText(raw)
    \/ CancelLoadMetadata
    \/ \E id \in DOMAIN loads : FetchSuccess(id)
    \/ \E id \in DOMAIN loads, message \in FetchErrors : FetchFail(id, message)
    \/ \E id \in DOMAIN loads : AddSourceTimer(id)

SpecLoad == Init /\ [][NextLoad]_vars

\* ------------------------------------------------------------------------
\* The response history: bound, order, eviction
\* ------------------------------------------------------------------------

MostRecentFirst(history) ==
    \A i \in 1..Len(history), j \in 1..Len(history) :
        i < j => history[i].id > history[j].id

\* the last push put its entry in front of one list and dropped what no
\* longer fits; every other list is as it was
LastPushPrepends ==
    lastCompleted.id # 0 =>
        /\ \E key \in DOMAIN lastCompleted.after :
              /\ lastCompleted.after[key] =
                     IF Len(historyOf(lastCompleted.before, key)) < MAX_RESPONSE_HISTORY
                     THEN <<lastCompleted.entry>> \o historyOf(lastCompleted.before, key)
                     ELSE <<lastCompleted.entry>>
                              \o SubSeq(lastCompleted.before[key], 1,
                                        MAX_RESPONSE_HISTORY - 1)
              /\ \A other \in DOMAIN lastCompleted.after \ {key} :
                    /\ other \in DOMAIN lastCompleted.before
                    /\ lastCompleted.after[other] = lastCompleted.before[other]
        /\ DOMAIN lastCompleted.before \subseteq DOMAIN lastCompleted.after

\* C1: the history of every specification key holds at most 10 entries,
\* most recent first, and a push on a full list evicts the oldest entry and
\* keeps the 10 most recent in order
C1_HistoryBounded ==
    /\ \A key \in DOMAIN responseHistoryBySpec :
          /\ Len(responseHistoryBySpec[key]) <= MAX_RESPONSE_HISTORY
          /\ MostRecentFirst(responseHistoryBySpec[key])
    /\ LastPushPrepends

\* an eleventh entry has been pushed on a list that held ten
C1_Witness ==
    /\ lastCompleted.id # 0
    /\ \E key \in DOMAIN lastCompleted.before :
          /\ Len(lastCompleted.before[key]) = MAX_RESPONSE_HISTORY
          /\ Len(lastCompleted.after[key]) = MAX_RESPONSE_HISTORY
          /\ lastCompleted.after[key][1] = lastCompleted.entry
          /\ lastCompleted.before[key][MAX_RESPONSE_HISTORY].id
                 \notin {lastCompleted.after[key][i].id : i \in 1..MAX_RESPONSE_HISTORY}
    /\ Cardinality(DOMAIN responseHistoryBySpec) > 1

\* ------------------------------------------------------------------------
\* Every send is recorded
\* ------------------------------------------------------------------------

\* the entry of the last completed send is new and in front of exactly one list
RecordedOnce ==
    /\ \E key \in DOMAIN lastCompleted.after :
          /\ lastCompleted.after[key] # << >>
          /\ lastCompleted.after[key][1] = lastCompleted.entry
          /\ Tail(lastCompleted.after[key]) =
                 Slice(historyOf(lastCompleted.before, key), MAX_RESPONSE_HISTORY - 1)
          /\ \A other \in DOMAIN lastCompleted.after \ {key} :
                 lastCompleted.after[other] = historyOf(lastCompleted.before, other)
    /\ \A key \in DOMAIN lastCompleted.before :
          \A i \in 1..Len(lastCompleted.before[key]) :
              lastCompleted.before[key][i].id # lastCompleted.entry.id

SendRecorded ==
    lastCompleted.id # 0 =>
        /\ lastCompleted.response = lastCompleted.entry.response
        /\ RecordedOnce
        /\ lastCompleted.outcome \in {"BodyInvalid", "TransportError"} =>
               lastCompleted.response.error # ""
        /\ lastCompleted.outcome = "success" => lastCompleted.response.error = ""

\* C2: every sendRequest made while an operation is selected ends with the
\* response set and exactly one history entry prepended, on success, on a
\* malformed JSON body and on a transport failure; the two failures record a
\* response with an error
C2_EverySendRecorded ==
    /\ []SendRecorded
    /\ \A id \in 1..MaxSends :
          (id \in DOMAIN sends) ~> (lastCompleted.id = id)

\* a request rejected by the transport has been recorded with its error
C2_Witness ==
    /\ lastCompleted.id # 0
    /\ lastCompleted.outcome = "TransportError"
    /\ lastCompleted.response.error # ""
    /\ responseHistory # << >>
    /\ responseHistory[1] = lastCompleted.entry

\* ------------------------------------------------------------------------
\* A history entry and the send it belongs to
\* ------------------------------------------------------------------------

\* C6: the operation key, method, path and parameter values of a history
\* entry are those in force when its sendRequest was issued, whatever was
\* selected or edited while the request was in flight
C6_EntryIsSnapshotOfIssue ==
    lastCompleted.id # 0 =>
        /\ lastCompleted.entry.key = lastCompleted.issued.key
        /\ lastCompleted.entry.method = lastCompleted.issued.method
        /\ lastCompleted.entry.path = lastCompleted.issued.path
        /\ lastCompleted.entry.pathParams = lastCompleted.issued.pathParams
        /\ lastCompleted.entry.queryParams = lastCompleted.issued.queryParams
        /\ lastCompleted.entry.headerParams = lastCompleted.issued.headerParams

\* ------------------------------------------------------------------------
\* Credentials and the outgoing request
\* ------------------------------------------------------------------------

\* what a user types into a credential form
SecurityInputs ==
    {SecurityValue(<<"tok1">>, << >>, << >>),
     SecurityValue(<<"tok2">>, << >>, << >>),
     SecurityValue(<< >>, <<"user">>, <<"pw">>),
     NoSecurityValue}

Ping204 == \E id \in DOMAIN sends : TransportSuccess(id, Result204)

NextSec ==
    \/ \E raw \in ValidTexts : loadSeq < MaxSecurityLoads /\ LoadMetadataFromText(raw)
    \/ \E key \in apiKeys(apiList(metadata)) :
          edits < MaxSecurityEdits /\ SetSelectedKey(key)
    \/ \E name \in requiredSchemes(selectedApi), value \in SecurityInputs :
          edits < MaxSecurityEdits /\ SetSecurityValue(name, value)
    \/ \E name \in schemeKeys(securitySchemes), value \in SecurityInputs :
          edits < MaxSecurityEdits /\ SetGlobalSecurityValue(name, value)
    \/ \E key \in paramNames(requestParameters(selectedApi), "query"),
          value \in ParamValues :
          edits < MaxSecurityEdits /\ SetQueryParam(key, value)
    \/ \E key \in paramNames(requestParameters(selectedApi), "header"),
          value \in ParamValues :
          edits < MaxSecurityEdits /\ SetHeaderParam(key, value)
    \/ sendSeq < MaxSecuritySends /\ SendRequest
    \/ Ping204

SpecSec == Init /\ [][NextSec]_vars

\* the credential in force for a scheme: the per-operation one when one is
\* stored, the global one otherwise
StoredValue(issued, key) ==
    IF key \in DOMAIN issued.securityValues THEN issued.securityValues[key]
    ELSE IF key \in DOMAIN issued.globalSecurityValues
    THEN issued.globalSecurityValues[key]
    ELSE NoSecurityValue

\* what the i-th declared scheme adds, given the credentials at issue
ContributionOf(issued, i) ==
    schemeContribution(issued.schemes[i], StoredValue(issued, issued.schemes[i].key),
                       issued.headerVariables)

\* the credential of the i-th scheme resolves to a non-empty value
Populated(issued, i) ==
    resolveHeaderTemplate(StoredValue(issued, issued.schemes[i].key).value,
                          issued.headerVariables) # << >>

\* the user's own headers: the global ones and the non-empty header parameters
UserHeaders(issued) == Spread(issued.globalHeaders, nonEmptyEntries(issued.headerParams))

UserSet(map, name) == name \in DOMAIN map /\ map[name] # << >>

\* the request carries the contribution c
Carries(send, c) ==
    CASE c.target = "header" ->
            /\ c.name \in DOMAIN send.config.headers
            /\ send.config.headers[c.name] = c.value
      [] c.target = "query" ->
            /\ c.name \in DOMAIN send.config.url.query
            /\ send.config.url.query[c.name] = FormEncode(c.value)
      [] c.target = "cookie" ->
            /\ "Cookie" \in DOMAIN send.config.headers
            /\ send.config.withCredentials
            /\ c.name \in DOMAIN send.security.cookieJar
            /\ send.security.cookieJar[c.name] = encodeURIComponent(c.value)
      [] OTHER -> FALSE

\* a scheme declared after the i-th writes the same header
Overwritten(issued, i) ==
    \E j \in (i + 1)..Len(issued.schemes) :
        /\ ContributionOf(issued, j).target = "header"
        /\ ContributionOf(issued, i).target = "header"
        /\ ContributionOf(issued, j).name = ContributionOf(issued, i).name

\* the user has set the header or query parameter the i-th scheme writes
UserWins(issued, i) ==
    \/ /\ ContributionOf(issued, i).target = "header"
       /\ UserSet(UserHeaders(issued), ContributionOf(issued, i).name)
    \/ /\ ContributionOf(issued, i).target = "query"
       /\ UserSet(issued.queryParams, ContributionOf(issued, i).name)

EffectiveValues(issued) ==
    [key \in DOMAIN issued.securityValues \cup DOMAIN issued.globalSecurityValues |->
        IF key \in DOMAIN issued.securityValues THEN issued.securityValues[key]
        ELSE issued.globalSecurityValues[key]]

\* C8: for every scheme the request uses the per-operation value when one is
\* stored, and the global value exactly when no per-operation value is
\* stored for that scheme
C8_PerOperationValueFirst ==
    \A id \in DOMAIN sends :
        /\ sends[id].security =
               buildSecurityPayload(sends[id].issued.schemes,
                                    EffectiveValues(sends[id].issued), EmptyMap,
                                    sends[id].issued.headerVariables)
        /\ \A i \in 1..Len(sends[id].issued.schemes) :
              /\ ContributionOf(sends[id].issued, i).target = "header"
              /\ ~Overwritten(sends[id].issued, i)
              /\ ~UserWins(sends[id].issued, i)
              => sends[id].config.headers[ContributionOf(sends[id].issued, i).name]
                     = ContributionOf(sends[id].issued, i).value

\* both values are stored for a scheme and differ; the request carries the
\* per-operation one
C8_Witness ==
    \E id \in DOMAIN sends :
        /\ "bearerAuth" \in DOMAIN sends[id].issued.securityValues
        /\ "bearerAuth" \in DOMAIN sends[id].issued.globalSecurityValues
        /\ sends[id].issued.securityValues["bearerAuth"].value = <<"tok1">>
        /\ sends[id].issued.globalSecurityValues["bearerAuth"].value = <<"tok2">>
        /\ "Authorization" \in DOMAIN sends[id].config.headers
        /\ sends[id].config.headers["Authorization"] = <<"Bearer ", "tok1">>

\* the per-operation credential of the i-th scheme is in the request
PerOperationValueSent(send, i) ==
    /\ send.issued.schemes[i].key \in DOMAIN send.issued.securityValues
    /\ ContributionOf(send.issued, i).target # "none"
    /\ Carries(send, ContributionOf(send.issued, i))

\* C9: a credential stored with setSecurityValue while an operation is
\* selected contributes only to requests sent for that operation
C9_PerOperationValueStaysWithOperation ==
    \A id \in DOMAIN sends :
        \A i \in 1..Len(sends[id].issued.schemes) :
            PerOperationValueSent(sends[id], i) =>
                sends[id].issued.securityOwner[sends[id].issued.schemes[i].key]
                    = sends[id].issued.key

\* C10: a non-empty query parameter of the draft is sent as the user typed
\* it, also when an apiKey scheme in the query has a credential for the same
\* name; the credential fills the parameter only when the user's field is
\* absent or empty
C10_UserQueryValueWins ==
    \A id \in DOMAIN sends :
        /\ \A name \in DOMAIN sends[id].issued.queryParams :
              sends[id].issued.queryParams[name] # << >> =>
                  /\ name \in DOMAIN sends[id].config.url.query
                  /\ sends[id].config.url.query[name]
                         = FormEncode(sends[id].issued.queryParams[name])
        /\ \A name \in DOMAIN sends[id].security.queryParams :
              ~UserSet(sends[id].issued.queryParams, name) =>
                  /\ name \in DOMAIN sends[id].config.url.query
                  /\ sends[id].config.url.query[name]
                         = FormEncode(sends[id].security.queryParams[name])
        /\ DOMAIN sends[id].config.url.query \subseteq
               DOMAIN sends[id].issued.queryParams
                   \cup DOMAIN sends[id].security.queryParams

\* the draft holds api_key = 5, the apiKey scheme holds another value, and
\* the URL carries 5
C10_Witness ==
    \E id \in DOMAIN sends :
        /\ "api_key" \in DOMAIN sends[id].issued.queryParams
        /\ sends[id].issued.queryParams["api_key"] = <<"5">>
        /\ "api_key" \in DOMAIN sends[id].security.queryParams
        /\ sends[id].security.queryParams["api_key"] = <<"tok1">>
        /\ sends[id].config.url.query["api_key"] = <<"5">>

\* ------------------------------------------------------------------------
\* Overlapping, cancelled and failed loads
\* ------------------------------------------------------------------------

\* C3: a load that was awaiting its fetch when a newer load (loadMetadata,
\* addSavedSource or testConnect) started never has its result applied:
\* no settle event of such a load reports that it installed its document.
C3_SupersededLoadNeverApplied ==
    \A e \in settled : e.superseded => e.outcome # "applied"

\* C4: a load that ends cancelled (by cancelLoadMetadata or by the start of a
\* newer load) shows no error toast, sets no error response, and its own
\* start changed none of metadata, currentSpecKey, responseHistory and the
\* request draft.
C4_CancelledLoadLeavesStateUntouched ==
    \A e \in settled :
        e.outcome = "cancelled" =>
            /\ \A t \in e.toasts : t.severity # "error"
            /\ ~e.errorResponse
            /\ e.changed = {}

\* a document that passed the version, info and paths validation
ValidDocument(md) ==
    /\ Truthy(md.spec.openapi) \/ Truthy(md.spec.swagger)
    /\ Truthy(md.spec.info)
    /\ Truthy(md.spec.paths)

\* C5: a load that fails, through any entry point, leaves the loaded
\* document as it was before the load, and the store never holds a document
\* that did not pass the whole validation.
C5_FailedLoadKeepsDocument ==
    /\ \A e \in settled :
            e.outcome = "failed" => metadata = e.before /\ "metadata" \notin e.changed
    /\ metadata # Null => ValidDocument(metadata)

\* a fetched text that fails validation settles as failed while an earlier
\* document is loaded
C5_Witness ==
    \E e \in settled :
        /\ e.outcome = "failed"
        /\ e.kind \in {"loadMetadata", "loadSavedSource"}
        /\ e.errorResponse
        /\ response.error = "Invalid OpenAPI spec: missing 'info' or 'paths'."
        /\ metadata # Null

\* ------------------------------------------------------------------------
\* Header precedence: global headers, header parameters, security headers
\* ------------------------------------------------------------------------

HeaderDrafts ==
    {Put(EmptyMap, "X-Key", <<"g">>),
     Put(EmptyMap, "X-Key", << >>),
     Put(Put(EmptyMap, "Authorization", <<"Bearer ", "g">>), "Cookie", <<"a=1">>)}

HeaderCredentials == {SecurityValue(<<"tok1">>, << >>, << >>), NoSecurityValue}

NextHeaders ==
    \/ loadSeq < MaxHeaderLoads /\ LoadMetadataFromText(TextD2)
    \/ \E key \in apiKeys(apiList(metadata)) :
          edits < MaxHeaderEdits /\ SetSelectedKey(key)
    \/ \E value \in HeaderDrafts : edits < MaxHeaderEdits /\ SetHeaderDraft(value)
    \/ edits < MaxHeaderEdits /\ SaveHeader
    \/ \E key \in paramNames(requestParameters(selectedApi), "header"),
          value \in ParamValues :
          edits < MaxHeaderEdits /\ SetHeaderParam(key, value)
    \/ \E name \in schemeKeys(securitySchemes), value \in HeaderCredentials :
          edits < MaxHeaderEdits /\ SetGlobalSecurityValue(name, value)
    \/ sendSeq < MaxHeaderSends /\ SendRequest
    \/ Ping204

SpecHeaders == Init /\ [][NextHeaders]_vars

\* the headers of send id agree with the precedence of its issue-time draft
ExplicitHeadersWin(send) ==
    /\ \A k \in DOMAIN nonEmptyEntries(send.issued.headerParams) :
          LowerHeaderName(k) # "cookie" => send.config.headers[k] = send.issued.headerParams[k]
    /\ \A k \in DOMAIN send.security.headers :
          LowerHeaderName(k) # "cookie" =>
              send.config.headers[k] =
                  IF UserSet(UserHeaders(send.issued), k)
                  THEN UserHeaders(send.issued)[k]
                  ELSE send.security.headers[k]

\* C11: in the headers handed to the transport a non-empty header-parameter
\* value stands in place of the global header of the same name, and a header
\* contributed by the security compiler (other than Cookie) is used only
\* where the merged global and header-parameter headers have no value or an
\* empty one.
C11_SecurityHeadersFillGapsOnly ==
    \A id \in DOMAIN sends : ExplicitHeadersWin(sends[id])

\* a request whose header parameter, global header and security scheme all
\* name X-Key with different values carries the header parameter's value;
\* with the global header empty the security value is used
C11_Witness ==
    \E id \in DOMAIN sends :
        /\ Has(sends[id].issued.headerParams, "X-Key")
        /\ Has(sends[id].issued.globalHeaders, "X-Key")
        /\ Has(sends[id].security.headers, "X-Key")
        /\ sends[id].issued.headerParams["X-Key"] = <<"5">>
        /\ sends[id].issued.globalHeaders["X-Key"] = <<"g">>
        /\ sends[id].security.headers["X-Key"] = <<"tok1">>
        /\ sends[id].config.headers["X-Key"] = <<"5">>

\* ------------------------------------------------------------------------
\* Path parameters of a path with two placeholders
\* ------------------------------------------------------------------------

NextPath ==
    \/ loadSeq < MaxPathLoads /\ LoadMetadataFromText(TextD3)
    \/ \E key \in apiKeys(apiList(metadata)) : edits < MaxPathEdits /\ SetSelectedKey(key)
    \/ \E key \in paramNames(requestParameters(selectedApi), "path"),
          value \in ParamValues : edits < MaxPathEdits /\ SetPathParam(key, value)
    \/ sendSeq < MaxPathSends /\ SendRequest
    \/ \E id \in DOMAIN sends : TransportSuccess(id, Result204)

SpecPath == Init /\ [][NextPath]_vars

\* a path parameter has a value when the draft holds a non-empty text for it
HasPathValue(params, name) == Has(params, name) /\ params[name] # << >>

\* the path the description promises: valued placeholders replaced by their
\* encoded value, the others left as they are written in the template
substitutedPath(path, params) ==
    Concat([i \in 1..Len(path) |->
        IF path[i] \in PlaceholderAtoms /\ HasPathValue(params, PlaceholderName(path[i]))
        THEN encodeURIComponent(params[PlaceholderName(path[i])])
        ELSE <<path[i]>>])

\* C12: in the URL of every request sent, each {name} placeholder with a
\* path-parameter value is replaced by it and each placeholder without a
\* value stands literally as {name}, neither removed nor altered.
C12_UnvaluedPlaceholdersStayLiteral ==
    \A id \in DOMAIN sends :
        sends[id].config.url.path
            = substitutedPath(sends[id].issued.path, sends[id].issued.pathParams)

\* ------------------------------------------------------------------------
\* Bodies and content types of the operations of one path
\* ------------------------------------------------------------------------

NextBody ==
    \/ loadSeq < MaxBodyLoads /\ LoadMetadataFromText(TextD4)
    \/ \E key \in apiKeys(apiList(metadata)) : edits < MaxBodyEdits /\ SetSelectedKey(key)
    \/ \E value \in BodyTexts : edits < MaxBodyEdits /\ SetRequestBody(value)
    \/ \E value \in Range(requestContentTypeOptions) :
          edits < MaxBodyEdits /\ SetRequestContentType(value)
    \/ \E contentType \in Range(requestContentTypeOptions), value \in BodyTexts :
          edits < MaxBodyEdits /\ SetRequestBodyForContentType(contentType, value)
    \/ sendSeq < MaxBodySends /\ SendRequest
    \/ \E id \in DOMAIN sends : TransportSuccess(id, Result204)

SpecBody == Init /\ [][NextBody]_vars

\* C13: the configuration handed to the transport for a GET or DELETE
\* operation has no data, whatever the body text and content type of the draft.
C13_GetAndDeleteCarryNoBody ==
    \A id \in DOMAIN sends :
        sends[id].config.method \in {"get", "delete"} => sends[id].config.data = NoData

\* a DELETE was sent while the draft held a text/plain body
C13_Witness ==
    \E id \in DOMAIN sends :
        /\ sends[id].config.method = "delete"
        /\ sends[id].requestBody = <<"{bad">>
        /\ sends[id].config.headers["Content-Type"] = <<"text/plain">>
        /\ sends[id].config.data = NoData

\* ------------------------------------------------------------------------
\* Values of a response kept as header variables
\* ------------------------------------------------------------------------

HeaderMappingRule(path, responsePath, variable) ==
    [path |-> path, responsePath |-> responsePath, variable |-> variable]

MappingDrafts == {<<HeaderMappingRule(<<"/ping">>, "token", "token")>>}

MappingBodies == {<<"{\"token\":\"", "{{token}}", "\"}">>}

NextMapping ==
    \/ loadSeq < MaxMappingLoads /\ LoadMetadataFromText(TextD1)
    \/ \E key \in apiKeys(apiList(metadata)) :
          edits < MaxMappingEdits /\ SetSelectedKey(key)
    \/ \E value \in MappingDrafts : edits < MaxMappingEdits /\ SetHeaderMappingDraft(value)
    \/ \E value \in MappingBodies : edits < MaxMappingEdits /\ SetRequestBody(value)
    \/ sendSeq < MaxMappingSends /\ SendRequest
    \/ Transport

\* the transport settles every request it was handed
FairSpecMapping == Init /\ [][NextMapping]_vars /\ WF_vars(Transport)

\* the rule is complete, names the path the request was sent on, and finds
\* a value in the data of the response
RuleFinds(rule, issuedPath, data) ==
    /\ rule.path # << >> /\ rule.responsePath # "" /\ rule.variable # ""
    /\ rule.path = issuedPath
    /\ Has(data, rule.responsePath)

\* a request sent on a path with a mapping rule has just succeeded with data
\* in which the rule finds a value, and the table holds it under the variable
MappedValueStored ==
    (/\ lastCompleted'.id # lastCompleted.id
     /\ lastCompleted'.outcome = "success")
    => \A result \in Results, i \in 1..Len(headerMappingDraft) :
          (/\ lastCompleted'.response.body = Stringify(result.data)
           /\ RuleFinds(headerMappingDraft[i], lastCompleted'.issued.path, result.data))
          => /\ Has(headerVariables', headerMappingDraft[i].variable)
             /\ headerVariables'[headerMappingDraft[i].variable]
                    = result.data[headerMappingDraft[i].responsePath]

\* a request has just been issued: its body text and its credentials are
\* resolved against the table as it is
NextSendResolves ==
    sendSeq' # sendSeq
    => \A id \in DOMAIN sends' \ DOMAIN sends :
          /\ sends'[id].requestBody = resolveHeaderTemplate(requestBody, headerVariables)
          /\ sends'[id].security = securityPayload
          /\ \A k \in DOMAIN sends'[id].config.headers :
                Range(sends'[id].config.headers[k]) \cap TemplateAtoms = {}

\* C14: when a send on an operation with path P succeeds and a mapping rule
\* for P finds a value in the response, the header-variable table holds the
\* value under the rule's variable, and the next send resolves the variable
\* in its credentials, global headers and body text.
C14_MappedValueChainsToNextSend == [][MappedValueStored /\ NextSendResolves]_vars

\* the body kept for an operation and a content type, if there is one
HasBodyDraft(bodies, key, contentType) ==
    Has(bodies, key) /\ Has(bodies[key], contentType)

\* an operation has just been selected: the body of the draft is the one
\* kept for the operation and its content type, or else the schema default
SelectionRestoresDraft ==
    (selectedKey' # selectedKey /\ selectedApi' # Null)
    => IF HasBodyDraft(requestBodiesByContentType', selectedKey', requestContentType')
       THEN requestBody' = requestBodiesByContentType'[selectedKey'][requestContentType']
       ELSE requestBody' = getRequestBodyDefault(selectedApi', requestContentType')

\* C15: selecting an operation sets the body of the draft to the schema
\* default, unless a draft for that operation and content type was kept, in
\* which case the body edited before is restored.
C15_SelectionRestoresEditedBody == [][SelectionRestoresDraft]_vars

\* ------------------------------------------------------------------------
\* JSON texts with the fields of a specification
\* ------------------------------------------------------------------------

\* a text JSON.parse accepts whose top-level value is an object; a field is
\* absent, present with a value that is false, 0, "" or null (falsy), or
\* present with any other value (truthy)
JsonObjectText(id, openapi, swagger, info, paths) ==
    Text(id, "json", "object", openapi, swagger, info, paths, "d1")

JsonTexts ==
    {JsonObjectText("j1", "truthy", "absent", "truthy", "truthy"),
     JsonObjectText("j2", "falsy", "absent", "truthy", "truthy"),
     JsonObjectText("j3", "truthy", "absent", "falsy", "truthy"),
     JsonObjectText("j4", "truthy", "absent", "truthy", "falsy"),
     JsonObjectText("j5", "absent", "truthy", "truthy", "truthy"),
     JsonObjectText("j6", "falsy", "truthy", "truthy", "truthy"),
     JsonObjectText("j7", "absent", "absent", "truthy", "truthy"),
     JsonObjectText("j8", "truthy", "absent", "absent", "truthy")}

NextParse ==
    \/ loadSeq < MaxParseLoads /\ LoadMetadataFromText(TextD1)
    \/ \E raw \in JsonTexts : edits < MaxParseEdits /\ SetMetadataDraft(PastedText(raw))
    \/ \E key \in apiKeys(apiList(metadata)) : edits < MaxParseEdits /\ SetSelectedKey(key)
    \/ loadSeq < MaxParseLoads /\ LoadMetadata

SpecParse == Init /\ [][NextParse]_vars

Present(field) == field # "absent"

\* a JSON text whose top-level object contains openapi or swagger, info and paths
JsonSpecText(raw) ==
    /\ raw.syntax = "json" /\ raw.top = "object"
    /\ Present(raw.openapi) \/ Present(raw.swagger)
    /\ Present(raw.info) /\ Present(raw.paths)

\* loadMetadata has just parsed the pasted text of the draft
ParsedPaste(event) ==
    /\ event.kind = "loadMetadata"
    /\ loadedFromPaste /\ metadataDraft # EmptyStr

\* C16: a valid JSON text whose top-level object contains openapi or swagger
\* together with info and paths, whatever their values, is parsed with
\* success, and the document is the object the JSON text denotes.
C16_JsonSpecTextsParse ==
    \A event \in settled :
        (ParsedPaste(event) /\ JsonSpecText(TextOf(metadataDraft)))
        => /\ event.outcome = "applied"
           /\ metadata # Null
           /\ metadata.spec = ParsedObject(TextOf(metadataDraft))

\* ------------------------------------------------------------------------
\* Documents whose schemas refer to each other in a cycle
\* ------------------------------------------------------------------------

NextResolve ==
    \/ \E raw \in CycleTexts : loadSeq < MaxResolveLoads /\ LoadMetadataFromText(raw)
    \/ \E key \in apiKeys(apiList(metadata)) :
          edits < MaxResolveEdits /\ SetSelectedKey(key)

SpecResolve == Init /\ [][NextResolve]_vars

\* the schemas below a schema
childSchemas(schema) ==
    (IF Has(schema, "allOf") THEN Range(schema.allOf) ELSE {})
    \cup (IF Has(schema, "oneOf") THEN Range(schema.oneOf) ELSE {})
    \cup (IF Has(schema, "anyOf") THEN Range(schema.anyOf) ELSE {})
    \cup (IF Has(schema, "properties") THEN Range(schema.properties) ELSE {})
    \cup (IF Has(schema, "items") THEN {schema.items} ELSE {})

\* the schema or a schema below it is a reference marked circularRef: true
RECURSIVE CarriesCircularRef(_)
CarriesCircularRef(schema) ==
    /\ schema # Null
    /\ \/ Has(schema, "$ref") /\ Has(schema, "circularRef") /\ schema.circularRef
       \/ \E child \in childSchemas(schema) : CarriesCircularRef(child)

\* an operation of a document with cycles is selected
CycleSelected ==
    /\ metadata # Null /\ metadata.spec.doc \in CycleDocIds
    /\ selectedApi # Null

\* the shape of the cycle the selected operation starts in
SelectedShape ==
    CASE selectedApi.method = "POST" -> "ref"
      [] selectedApi.method = "PUT" -> "properties"
      [] selectedApi.method = "PATCH" -> "items"
      [] selectedApi.method = "GET" -> "allOf"
      [] selectedApi.method = "DELETE" -> "oneOf"
      [] OTHER -> "anyOf"

\* the depth at which requestSchema meets a reference for the second time
\* in a cycle of n schemas: a chain of references is entered at its second
\* schema and descends once for each schema; in the other shapes the first
\* schema is resolved with no reference seen and every schema costs two
\* descents
ClosingDepth(shape, n) == IF shape = "ref" THEN n ELSE 2 * n + 1

\* C17 as stated: for a cycle of any length the resolved schema carries the
\* reference that closes the cycle, marked circularRef: true.
C17_EveryCycleIsMarked ==
    CycleSelected => CarriesCircularRef(requestSchema)

\* C17: resolveSchema returns for every cycle, and the reference that closes
\* the cycle is marked circularRef: true exactly when it is met at a depth
\* of at most MAX_SCHEMA_RESOLUTION_DEPTH; a cycle that closes deeper is cut
\* at the depth bound and returned without the mark.
C17_CycleMarkedWithinDepth ==
    CycleSelected =>
        (CarriesCircularRef(requestSchema)
            <=> ClosingDepth(SelectedShape, CycleLength(metadata.spec.doc))
                    <= MAX_SCHEMA_RESOLUTION_DEPTH)

\* a cycle of two schemas through properties is resolved and marked
C17_Witness ==
    /\ CycleSelected
    /\ SelectedShape = "properties"
    /\ CycleLength(metadata.spec.doc) = 2
    /\ CarriesCircularRef(requestSchema)

\* ------------------------------------------------------------------------
\* The list of operations
\* ------------------------------------------------------------------------

ListTexts == {TextD1, TextD2, TextD3, TextD4, TextD5, TextD6}

NextList ==
    \/ \E raw \in ListTexts : loadSeq < MaxListLoads /\ LoadMetadataFromText(raw)
    \/ \E key \in apiKeys(apiList(metadata)) : edits < MaxListEdits /\ SetSelectedKey(key)

SpecList == Init /\ [][NextList]_vars

\* the (method, path) pairs of a document that stand for an operation: the
\* paths object is an object, and under a path that is an object the key is
\* a lower-case HTTP method and its value an object
OperationPairs(doc) ==
    IF ~pathsIsRecord(doc) THEN {}
    ELSE UNION {{<<doc.paths[i].entries[j].key, doc.paths[i].path>> :
                    j \in {k \in 1..Len(doc.paths[i].entries) :
                              /\ doc.paths[i].entries[k].key \in HTTP_METHODS
                              /\ doc.paths[i].entries[k].isObject}} :
                i \in {k \in 1..Len(doc.paths) : pathItemIsObject(doc.paths[k])}}

\* list has one item for each pair and nothing else, keyed by the method in
\* upper case and the path
ListsExactly(list, pairs) ==
    /\ Len(list) = Cardinality(pairs)
    /\ \A pair \in pairs :
          \E i \in 1..Len(list) :
              /\ list[i].key = <<toUpperCase(pair[1]), pair[2]>>
              /\ list[i].method = toUpperCase(pair[1])
              /\ list[i].path = pair[2]
    /\ \A i, j \in 1..Len(list) : list[i].key = list[j].key => i = j

\* C18: apiList yields one operation for each path and lower-case HTTP
\* method key with an object value, keyed by the upper-case method and the
\* path; the keys are pairwise distinct, other keys yield nothing, and
\* without a document or with a paths value that is no object the list is
\* empty.
C18_ApiListIsExact ==
    IF metadata = Null THEN apiList(metadata) = << >>
    ELSE ListsExactly(apiList(metadata), OperationPairs(Docs[metadata.spec.doc]))

\* a document with keys that are no operations is listed
C18_Witness ==
    /\ metadata # Null /\ metadata.spec.doc = "d5"
    /\ apiKeys(apiList(metadata))
          = {<<"HEAD", <<"/odd">>>>, <<"TRACE", <<"/odd">>>>, <<"HEAD", <<"/odd/">>>>}

\* ------------------------------------------------------------------------
\* The declared responses of the selected operation
\* ------------------------------------------------------------------------

NextResponses ==
    \/ loadSeq < MaxResponsesLoads /\ LoadMetadataFromText(TextD7)
    \/ \E key \in apiKeys(apiList(metadata)) :
          edits < MaxResponsesEdits /\ SetSelectedKey(key)
    \/ sendSeq < MaxResponsesSends /\ SendRequest
    \/ Transport

SpecResponses == Init /\ [][NextResponses]_vars

\* the statuses a response is asked for
StatusInputs == {NoStatus, "200", "404", "418", "500"}

\* the response the description promises: the exact status, or the first
\* preferred status declared, or the first response declared, or none
PromisedResponse(declared, status) ==
    IF status # NoStatus /\ \E i \in 1..Len(declared) : declared[i].status = status
    THEN responseAt(declared, status)
    ELSE IF \E i \in 1..Len(PREFERRED_RESPONSE_STATUSES) :
                \E j \in 1..Len(declared) :
                    declared[j].status = PREFERRED_RESPONSE_STATUSES[i]
    THEN responseAt(declared,
             PREFERRED_RESPONSE_STATUSES[
                 MinOf({i \in 1..Len(PREFERRED_RESPONSE_STATUSES) :
                           \E j \in 1..Len(declared) :
                               declared[j].status = PREFERRED_RESPONSE_STATUSES[i]})])
    ELSE IF declared # << >> THEN declared[1].response
    ELSE Null

\* C19: for the selected operation and every status, the response picked is
\* the one declared under that status, or else under the first of 200, 201,
\* 202, 204, default that is declared, or else the first declared, and
\* null only when none is declared.
C19_PickFollowsPreferenceOrder ==
    operationResponses(selectedApi) # Null
    => /\ \A status \in StatusInputs :
             pickedResponse(status)
                 = PromisedResponse(operationResponses(selectedApi), status)
       /\ pickedResponse(StatusText(response.status))
             = PromisedResponse(operationResponses(selectedApi),
                                StatusText(response.status))

\* ------------------------------------------------------------------------
\* One call of the transport for each send
\* ------------------------------------------------------------------------

\* a step hands a request to the transport only in a new sendRequest, and
\* then only that one request
HandsOverOnlyNewSend ==
    /\ DOMAIN sends' \ DOMAIN sends \subseteq {sendSeq + 1}
    /\ sendSeq' = sendSeq => DOMAIN sends' \subseteq DOMAIN sends
    /\ sendSeq' # sendSeq => sendSeq' = sendSeq + 1

\* a send that has just ended is no longer at the transport; when the
\* transport failed the error is shown and recorded in that step, and when
\* the body did not parse the request was never at the transport
EndedSendIsNotRepeated ==
    lastCompleted'.id # lastCompleted.id =>
        /\ lastCompleted'.id \notin DOMAIN sends'
        /\ lastCompleted'.outcome = "TransportError" =>
              /\ lastCompleted'.id \in DOMAIN sends
              /\ response'.error # ""
              /\ responseHistory' # << >>
              /\ responseHistory'[1] = lastCompleted'.entry
              /\ responseHistory'[1].response = response'
        /\ lastCompleted'.outcome = "BodyInvalid" =>
              /\ lastCompleted'.id \notin DOMAIN sends
              /\ sends' = sends
              /\ response' = InvalidJson

\* C20: no send is retried. Every request at the transport belongs to a
\* sendRequest call already made, a call hands over at most one request, a
\* failure of the transport is recorded in the step it arrives with the
\* request gone from the transport, and a send whose JSON body does not
\* parse is never handed over.
C20_NoSendIsRetried ==
    /\ [](\A id \in DOMAIN sends : id <= sendSeq)
    /\ [][HandsOverOnlyNewSend /\ EndedSendIsNotRepeated]_vars

\* a transport failure was recorded, and then a send with a malformed body
\* was rejected without a request at the transport
C20_Witness ==
    /\ lastCompleted.id = 2
    /\ lastCompleted.outcome = "BodyInvalid"
    /\ sends = << >>
    /\ Len(responseHistory) = 2
    /\ responseHistory[1].response = InvalidJson
    /\ responseHistory[2].response.error = "Network Error"

\* ------------------------------------------------------------------------
\* Server variable values
\* ------------------------------------------------------------------------

ServerTexts == {TextD1, TextD2, TextD8}

TemplateUrl == <<"https://", "{env}", ".example.com">>

ServerKeys == {TemplateUrl, <<"https://api.example.com">>, << >>}

ServerValueMaps == {[env |-> <<"prod">>], [env |-> << >>, zone |-> <<"eu">>], EmptyMap}

NextServers ==
    \/ \E raw \in ServerTexts : loadSeq < MaxServerLoads /\ LoadMetadataFromText(raw)
    \/ \E key \in apiKeys(apiList(metadata)) :
          edits < MaxServerEdits /\ SetSelectedKey(key)
    \/ \E key \in ServerKeys, values \in ServerValueMaps :
          edits < MaxServerEdits /\ SetMetadataServerVariable(key, values)

SpecServers == Init /\ [][NextServers]_vars

\* the value a declared variable takes when nothing is stored for it
DeclaredValue(variable) ==
    IF variable.default.has THEN variable.default.value
    ELSE IF variable.enum # << >> THEN <<variable.enum[1]>>
    ELSE << >>

\* after holds, under the template of server, a value for exactly the
\* declared variables: the one before held, else the declared one
KeptOrDeclared(before, after, server) ==
    /\ Has(after, server.url)
    /\ DOMAIN after[server.url]
          = {server.variables[i].name : i \in 1..Len(server.variables)}
    /\ \A i \in 1..Len(server.variables) :
          after[server.url][server.variables[i].name]
            = IF Has(before, server.url)
                 /\ Has(before[server.url], server.variables[i].name)
              THEN before[server.url][server.variables[i].name]
              ELSE DeclaredValue(server.variables[i])

ServerValuesKept ==
    /\ (metadata' = metadata /\ selectedKey' # selectedKey)
          => metadataServerVariables' = metadataServerVariables
    /\ (\E e \in settled' : e.outcome = "applied")
          => \A i \in 1..Len(serversOf(metadata')) :
                KeptOrDeclared(metadataServerVariables, metadataServerVariables',
                               serversOf(metadata')[i])

MultipartHeaderDrafts ==
    {Put(EmptyMap, "Content-Type", <<"text/plain">>),
     Put(EmptyMap, "content-type", <<"text/plain">>),
     Put(EmptyMap, "Content-Type", << >>)}

NextMultipart ==
    \/ loadSeq < MaxMultipartLoads /\ LoadMetadataFromText(TextD9)
    \/ \E key \in apiKeys(apiList(metadata)) :
          edits < MaxMultipartEdits /\ SetSelectedKey(key)
    \/ \E value \in MultipartHeaderDrafts :
          edits < MaxMultipartEdits /\ SetHeaderDraft(value)
    \/ edits < MaxMultipartEdits /\ SaveHeader
    \/ \E key \in paramNames(requestParameters(selectedApi), "header"),
          value \in {<<"text/csv">>, << >>} :
          edits < MaxMultipartEdits /\ SetHeaderParam(key, value)
    \/ \E value \in BodyTexts : edits < MaxMultipartEdits /\ SetRequestBody(value)
    \/ sendSeq < MaxMultipartSends /\ SendRequest
    \/ \E id \in DOMAIN sends : TransportSuccess(id, Result204)

SpecMultipart == Init /\ [][NextMultipart]_vars

\* the headers carry a Content-Type header under some capitalisation
CarriesContentType(headers) ==
    \E k \in DOMAIN headers : LowerHeaderName(k) = "content-type"

\* a multipart request with a body text is handed to the transport
MultipartHandedOver ==
    /\ sendSeq' = sendSeq + 1
    /\ Has(sends', sendSeq + 1)
    /\ requestContentType = "multipart/form-data"
    /\ ~TrimIsEmpty(resolveHeaderTemplate(requestBody, headerVariables))

\* C22: a request sent with the content type multipart/form-data and a
\* non-empty body text is handed to the transport without a Content-Type
\* header, whatever the global headers and header parameters hold and
\* however the name of the header is capitalised.
C22_MultipartCarriesNoContentType ==
    [][MultipartHandedOver => ~CarriesContentType(sends'[sendSeq + 1].config.headers)]_vars

\* ------------------------------------------------------------------------
\* The depth bound of resolveSchema and buildDefaultFromSchema
\* ------------------------------------------------------------------------

DefaultTexts == CycleTexts \cup {TextD10, TextD11}

NextDefault ==
    \/ \E raw \in DefaultTexts : loadSeq < MaxDefaultLoads /\ LoadMetadataFromText(raw)
    \/ \E key \in apiKeys(apiList(metadata)) :
          edits < MaxDefaultEdits /\ SetSelectedKey(key)

SpecDefault == Init /\ [][NextDefault]_vars

\* schema processed with everything below it left as it is given
ShallowResolve(schemas, schema) ==
    IF Has(schema, "$ref")
    THEN IF getSchemaFromRef(schemas, schema["$ref"]) = Null THEN schema
         ELSE getSchemaFromRef(schemas, schema["$ref"])
    ELSE IF IsNonEmptyList(schema, "allOf")
    THEN Spread(schema, mergeAll(EmptyMap, schema.allOf))
    ELSE schema

\* k objects nested under the property child, the innermost one empty
RECURSIVE NestedChild(_)
NestedChild(k) ==
    IF k = 0 THEN JsObject(EmptyMap) ELSE JsObject([child |-> NestedChild(k - 1)])

\* beyond the bound a schema comes back as given and its default is {}; at
\* the bound a schema is processed and every schema below it, reached
\* through a reference, a branch, a property or items, is left as given
BoundedAt(schemas, schema) ==
    /\ \A depth \in (MAX_SCHEMA_RESOLUTION_DEPTH + 1)..(MAX_SCHEMA_RESOLUTION_DEPTH + 2),
          seenRefs \in {{}, {schema["$ref"] : x \in {y \in {1} : Has(schema, "$ref")}}} :
          resolveSchema(schemas, schema, seenRefs, depth) = schema
    /\ resolveSchema(schemas, schema, {}, MAX_SCHEMA_RESOLUTION_DEPTH)
          = ShallowResolve(schemas, schema)
    /\ buildDefaultFromSchema(schemas, schema, MAX_SCHEMA_RESOLUTION_DEPTH + 1)
          = JsObject(EmptyMap)

\* the counter grows by one on every descent from the schema of the
\* selected operation: a chain of references longer than the bound ends
\* unresolved at the schema met at depth 7, and the default of a cycle
\* through properties has an object at depths 0, 2, 4 and 6 only
CountsEveryDescent ==
    CycleSelected =>
        /\ (SelectedShape = "ref"
               /\ CycleLength(metadata.spec.doc) > MAX_SCHEMA_RESOLUTION_DEPTH)
             => requestSchema
                  = componentSchemas(metadata)[
                        <<"R", ((MAX_SCHEMA_RESOLUTION_DEPTH + 1)
                                   % CycleLength(metadata.spec.doc)) + 1>>]
        /\ SelectedShape = "properties"
             => requestBodyDefault = NestedChild(MAX_SCHEMA_RESOLUTION_DEPTH \div 2 + 1)

\* C23: resolveSchema processes a schema only while the depth, which grows
\* by one on every descent through a reference, a branch of allOf, oneOf or
\* anyOf, a property or items, is at most MAX_SCHEMA_RESOLUTION_DEPTH; a
\* schema reached deeper is returned as given, and buildDefaultFromSchema
\* stops at the same depth.
C23_ResolutionIsDepthBounded ==
    /\ metadata # Null =>
          \A name \in DOMAIN componentSchemas(metadata) :
              BoundedAt(componentSchemas(metadata), componentSchemas(metadata)[name])
    /\ CountsEveryDescent

\* a chain of seven references is cut at depth 7 and left unresolved there
C23_Witness ==
    /\ CycleSelected /\ SelectedShape = "ref"
    /\ CycleLength(metadata.spec.doc) = 7
    /\ requestSchema = RefSchema(<<"R", 2>>)

\* ------------------------------------------------------------------------
\* The merge of the branches of allOf
\* ------------------------------------------------------------------------

\* the branches of allOf as resolveSchema resolves them, one level down
ResolvedBranches(schemas, schema) ==
    [i \in 1..Len(schema.allOf) |-> resolveSchema(schemas, schema.allOf[i], {}, 1)]

\* the branches that have the field
BranchesWith(branches, field) == {i \in 1..Len(branches) : Has(branches[i], field)}

\* the last of the branches
LastOf(indices) == CHOOSE i \in indices : \A j \in indices : j <= i

\* the properties of the branches that have the property, a later branch
\* before an earlier one
UnionOfProperties(branches) ==
    LET holders(k) == {i \in BranchesWith(branches, "properties") :
                          Has(branches[i].properties, k)}
    IN  [k \in UNION {DOMAIN branches[i].properties :
                         i \in BranchesWith(branches, "properties")} |->
            branches[LastOf(holders(k))].properties[k]]

MergedAsStated(schema, branches, merged) ==
    /\ DOMAIN merged
          = DOMAIN schema \cup {"properties", "required"}
              \cup UNION {DOMAIN branches[i] : i \in 1..Len(branches)}
    /\ merged.properties = UnionOfProperties(branches)
    /\ Range(merged.required)
          = UNION {Range(branches[i].required) : i \in BranchesWith(branches, "required")}
    /\ Cardinality(Range(merged.required)) = Len(merged.required)
    /\ \A field \in DOMAIN merged \ {"properties", "required"} :
          merged[field]
            = IF BranchesWith(branches, field) = {} THEN schema[field]
              ELSE branches[LastOf(BranchesWith(branches, field))][field]

MergeSelected ==
    /\ metadata # Null /\ metadata.spec.doc = "d11"
    /\ selectedApi # Null

\* C24: resolving a schema with allOf gives a schema whose properties are
\* the union of the properties of the resolved branches, a later branch
\* winning a collision, whose required is the union of the branches'
\* required without duplicates, and whose other fields are the schema's own
\* with the value of the last branch having the field laid over them.
C24_AllOfMergesBranches ==
    metadata # Null =>
        /\ \A name \in DOMAIN componentSchemas(metadata) :
              LET schema == componentSchemas(metadata)[name]
              IN  IsNonEmptyList(schema, "allOf") =>
                      MergedAsStated(schema,
                                     ResolvedBranches(componentSchemas(metadata), schema),
                                     resolveSchema(componentSchemas(metadata), schema, {}, 0))
        /\ LET schema == getRequestSchema(componentSchemas(metadata), selectedApi)
           IN  (schema # Null /\ IsNonEmptyList(schema, "allOf")) =>
                   MergedAsStated(schema,
                                  ResolvedBranches(componentSchemas(metadata), schema),
                                  requestSchema)

\* three branches with collisions, merged for the selected operation
C24_Witness ==
    /\ MergeSelected
    /\ selectedKey = <<"GET", <<"/merge">>>>
    /\ requestSchema.properties
          = [a |-> [type |-> "integer"], b |-> [type |-> "integer"],
             c |-> [type |-> "string"]]
    /\ requestSchema.required = <<"a", "b", "c">>
    /\ requestSchema.title = "second"
    /\ requestSchema.description = "first"
    /\ requestSchema.nullable = TRUE

\* ------------------------------------------------------------------------
\* The precedence of the default value
\* ------------------------------------------------------------------------

\* the default by the stated precedence: default, first enum value, array
\* of the item default, object of the property defaults, false, 0, the
\* time, "string"
RECURSIVE PromisedDefault(_)
PromisedDefault(schema) ==
    IF Has(schema, "default") THEN schema.default
    ELSE IF IsNonEmptyList(schema, "enum") THEN schema.enum[1]
    ELSE IF Has(schema, "type") /\ schema.type = "array"
    THEN JsArray(<<PromisedDefault(schema.items)>>)
    ELSE IF (Has(schema, "type") /\ schema.type = "object") \/ Has(schema, "properties")
    THEN JsObject([k \in DOMAIN schema.properties |->
                      PromisedDefault(schema.properties[k])])
    ELSE IF Has(schema, "type") /\ schema.type = "boolean" THEN JsBoolean(FALSE)
    ELSE IF Has(schema, "type") /\ schema.type \in {"integer", "number"}
    THEN JsNumber(0)
    ELSE IF Has(schema, "format") /\ schema.format = "date-time" THEN IsoNow
    ELSE JsString("string")

\* an operation of the document d10 is selected and has a body schema
DefaultSelected ==
    /\ metadata # Null /\ metadata.spec.doc = "d10"
    /\ selectedApi # Null
    /\ getRequestSchema(componentSchemas(metadata), selectedApi) # Null

\* C25: the default built for the body schema of the selected operation is
\* the one of the stated precedence: an explicit default, else the first
\* enum value, else for an array one element holding the default of the
\* items whatever their type, else for an object the defaults of its
\* properties, else false, 0 or "string".
C25_DefaultFollowsPrecedence ==
    DefaultSelected =>
        requestBodyDefault
          = PromisedDefault(getRequestSchema(componentSchemas(metadata), selectedApi))

\* ------------------------------------------------------------------------
\* The prefix of the Authorization value
\* ------------------------------------------------------------------------

\* tokens without a prefix, with the prefix of a scheme, and none
AuthInputs ==
    {SecurityValue(<<"tok">>, << >>, << >>),
     SecurityValue(<<"Bearer ", "tok">>, << >>, << >>),
     SecurityValue(<<"bearer ", "tok">>, << >>, << >>),
     SecurityValue(<<"digest", " ", "tok">>, << >>, << >>),
     NoSecurityValue}

NextAuth ==
    \/ loadSeq < MaxAuthLoads /\ LoadMetadataFromText(TextD12)
    \/ \E key \in apiKeys(apiList(metadata)) :
          edits < MaxAuthEdits /\ SetSelectedKey(key)
    \/ \E name \in requiredSchemes(selectedApi), value \in AuthInputs :
          edits < MaxAuthEdits /\ SetSecurityValue(name, value)
    \/ \E name \in schemeKeys(securitySchemes), value \in AuthInputs :
          edits < MaxAuthEdits /\ SetGlobalSecurityValue(name, value)
    \/ sendSeq < MaxAuthSends /\ SendRequest
    \/ Ping204

SpecAuth == Init /\ [][NextAuth]_vars

\* the prefix of a scheme: "Bearer " for bearer, oauth2 and openIdConnect,
\* the name of the scheme and a space for another http scheme
AuthPrefix(scheme) ==
    IF scheme.type = "http" /\ toLowerCase(scheme.scheme) # "bearer"
    THEN <<toLowerCase(scheme.scheme), " ">>
    ELSE <<"Bearer ">>

BeginsWith(text, prefix) ==
    Len(text) >= Len(prefix) /\ SubSeq(text, 1, Len(prefix)) = prefix

\* the token with the prefix exactly once
PrefixedOnce(scheme, token) ==
    IF BeginsWith(token, AuthPrefix(scheme)) THEN token
    ELSE AuthPrefix(scheme) \o token

\* the resolved token of the i-th declared scheme
TokenOf(i) ==
    resolveHeaderTemplate(
        securityValueFor(securitySchemes[i].key, securityValues,
                         globalSecurityValues).value,
        headerVariables)

\* C26: for an http scheme other than basic and for oauth2 and
\* openIdConnect, the Authorization value compiled from a token is the
\* token with the prefix of the scheme exactly once: unchanged when it
\* begins with the prefix, the prefix prepended otherwise.
C26_AuthorizationPrefixedOnce ==
    (metadata # Null /\ metadata.spec.doc = "d12") =>
        \A i \in 1..Len(securitySchemes) :
            (/\ TokenOf(i) # << >>
             /\ \A j \in 1..Len(securitySchemes) \ {i} : TokenOf(j) = << >>)
            => /\ Has(securityPayload.headers, "Authorization")
               /\ securityPayload.headers["Authorization"]
                     = PrefixedOnce(securitySchemes[i], TokenOf(i))

\* ------------------------------------------------------------------------
\* The visible history and the history of the active specification
\* ------------------------------------------------------------------------

NextSources ==
    \/ \E key \in SourceKeys : edits < MaxSourcesEdits /\ SetSourceDraftKey(key)
    \/ \E value \in {Url(UrlB)} : edits < MaxSourcesEdits /\ SetSourceDraftValue(value)
    \/ loadSeq < MaxSourcesLoads /\ AddSavedSource
    \/ \E key \in SourceKeys : loadSeq < MaxSourcesLoads /\ LoadSavedSource(key)
    \/ loadSeq < MaxSourcesLoads /\ LoadMetadataFromText(TextD1)
    \/ \E key \in SourceKeys \cup {""} :
          edits < MaxSourcesEdits /\ RemoveSavedSource(key)
    \/ \E id \in DOMAIN loads : FetchSuccess(id)
    \/ \E id \in DOMAIN loads : AddSourceTimer(id)
    \/ sendSeq < MaxSourcesSends /\ SendRequest
    \/ \E id \in DOMAIN sends : TransportSuccess(id, Result204)

SpecSources == Init /\ [][NextSources]_vars

\* C27: in every state the visible responseHistory is the list stored in
\* responseHistoryBySpec under the active specification key, under
\* "default" when currentSpecKey is empty, and empty when no list is
\* stored there.
C27_VisibleHistoryIsActiveList ==
    responseHistory = historyOf(responseHistoryBySpec, historyKey(currentSpecKey))

\* ------------------------------------------------------------------------
\* The flag and the cancellation token of the load in flight
\* ------------------------------------------------------------------------

\* the loads whose fetch has not answered
LoadsInFlight == {id \in DOMAIN loads : loads[id].pc = "fetching"}

\* the load started last among them
LatestInFlight == CHOOSE id \in LoadsInFlight : \A other \in LoadsInFlight : other <= id

\* C28: while a load is in flight isLoadingMetadata is true and the store
\* holds the cancellation token of the load started last, whatever earlier
\* loads have settled meanwhile.
C28_LoadInFlightKeepsFlagAndToken ==
    LoadsInFlight # {} =>
        /\ isLoadingMetadata
        /\ loadAbortController = LatestInFlight

\* ------------------------------------------------------------------------
\* The selection after a load
\* ------------------------------------------------------------------------

\* the loads that the last step settled by applying a document
AppliedLoads ==
    {event \in settled :
        /\ event.outcome = "applied"
        /\ event.kind \in {"loadMetadata", "loadMetadataFromText", "loadSavedSource",
                            "addSavedSource"}}

\* C29: after a load that applied a document with at least one
\* operation, selectedKey names an operation of the document: selectedApi
\* is not null.
C29_LoadSelectsAnOperation ==
    (AppliedLoads # {} /\ metadata # Null /\ apiList(metadata) # << >>) =>
        selectedApi # Null

\* ------------------------------------------------------------------------
\* The body text of a GET or DELETE
\* ------------------------------------------------------------------------

\* sendRequest runs for a GET or DELETE operation
SendsGetOrDelete ==
    /\ sendSeq' = sendSeq + 1
    /\ selectedApi # Null
    /\ selectedApi.method \in {"GET", "DELETE"}

\* C30: for a GET or DELETE operation sendRequest hands the request to the
\* transport, without a body, whatever the draft body text is and whether
\* or not it parses as JSON.
C30_BodyTextIgnoredForGetAndDelete ==
    [][SendsGetOrDelete =>
          /\ Has(sends', sendSeq + 1)
          /\ sends'[sendSeq + 1].config.data = NoData]_vars
====
